---- MODULE Spec2Model ----
(***************************************************************************)
(* Model of the point-of-sale core of supermarketpos: the session cart     *)
(* (cart/models.py), the commit pipeline (transaction/views.py,            *)
(* transaction/models.py) and the product catalog (inventory/models.py).   *)
(*                                                                         *)
(* Money is an integer number of cents (a Decimal quantized to 0.01).      *)
(* A unit price inside Cart.add is an integer number of mills (0.001),     *)
(* because an override price reaches add unquantized (_to_decimal, the     *)
(* second definition at cart/models.py:44, does not quantize).             *)
(* VAT percentages are whole percents.                                     *)
(***************************************************************************)
EXTENDS Integers, Sequences, FiniteSets, TLC

\* ------------------------------------------------------------------ bounds
\* Largest quantity one request may ask for (add, decrement, set_quantity).
MaxQty == 3
\* Largest initial on-hand quantity of a product.
MaxStock == 3

\* ------------------------------------------------------------------ state
VARIABLES
    products,   \* inventory.Product rows: barcode -> record
    cart,       \* the session store's cart: session -> (key -> line)
    last,       \* the last Cart call and what it returned, where a record is kept
    session,    \* the rest of the session store: session -> idempotency markers
                \* and suspended carts
    req,        \* the endTransaction requests: number -> where the request is,
                \* its copy of the session and its response
    transactions,         \* transaction rows, in the order they were created
    productTransactions,  \* productTransaction rows
    clock,      \* the time, in seconds
    debts,         \* Debt rows, in the order they were created; pk = position
    debtPayments,  \* DebtPayment rows, in the order they were created
    pay,        \* the pay_debt and debt_payment requests: number -> where the
                \* request is and the copies of the Debt row it holds
    today,      \* the local date, in days
    receiving,  \* the inventoryAdd request: where it is and the Product it read
    stockAdjustments,  \* StockAdjustment rows, in the order they were created
    adjust      \* the stock_adjustment requests: number -> where the request
                \* is and the Product it read

cartVars == <<products, cart, last>>
saleVars == <<session, req, transactions, productTransactions, clock>>
debtVars == <<debts, debtPayments, pay, today, receiving, stockAdjustments, adjust>>
vars == <<products, cart, last, session, req, transactions, productTransactions, clock,
          debts, debtPayments, pay, today, receiving, stockAdjustments, adjust>>

Barcodes == {"A", "B"}
Sessions == {"s1", "s2"}

\* A cart key is the barcode of the product object handed to Cart.add:
\* a catalog barcode, or "<barcode>_<amount>" as built by manualAmount.
PlainKey(b) == [base |-> b, manual |-> FALSE, amt |-> 0]
ManualKey(b, a) == [base |-> b, manual |-> TRUE, amt |-> a]

\* ---------------------------------------------------------------- decimal
\* Decimal.quantize(..., rounding=ROUND_HALF_UP) of n/d, d > 0: ties go away
\* from zero.
RoundHalfUp(n, d) ==
    IF n >= 0 THEN (2 * n + d) \div (2 * d)
              ELSE -((2 * (-n) + d) \div (2 * d))

\* f"{d:.2f}" of a Decimal: Decimal.__format__ rounds with the context's
\* rounding, ROUND_HALF_EVEN by default (no module changes it).
RoundHalfEven(n, d) ==
    LET a == IF n >= 0 THEN n ELSE -n
        q == a \div d
        r == a % d
        m == IF 2 * r > d THEN q + 1
             ELSE IF 2 * r < d THEN q
             ELSE IF q % 2 = 0 THEN q ELSE q + 1
    IN  IF n >= 0 THEN m ELSE -m

\* Cart._format_str on a value in mills: the stored two-place string, in cents.
FormatStr(mills) == RoundHalfEven(mills, 10)

\* ---------------------------------------------------------------- catalog
\* Product.tax_category is an optional foreign key to Tax: the empty set, or
\* the singleton of the category's tax_percentage.
NoCategory == {}
Category(pct) == {pct}
CategoryPct(tc) == CHOOSE x \in tc : TRUE

\* The catalogs the specifications start from. A: 500.00, cost 300.00, VAT
\* applicable with no tax category; B: 9.99, cost 5.00, tax category 10%.
Catalogs ==
    { [b \in Barcodes |->
          IF b = "A"
          THEN [sales_price |-> 50000, cost_price |-> 30000, qty |-> qa,
                is_vat_applicable |-> TRUE, tax_category |-> NoCategory,
                low_stock_threshold |-> 5, department |-> "SHELF"]
          ELSE [sales_price |-> 999, cost_price |-> 500, qty |-> qb,
                is_vat_applicable |-> TRUE, tax_category |-> Category(10),
                low_stock_threshold |-> 1, department |-> "COUNTER"]] :
      qa \in {MaxStock - 1, MaxStock}, qb \in {MaxStock - 1} }

\* Product.tax_percentage (property).
tax_percentage(p) ==
    IF ~p.is_vat_applicable THEN 0
    ELSE IF p.tax_category # NoCategory THEN CategoryPct(p.tax_category)
    ELSE 18

\* Cart._resolve_tax_pct_and_applicability: <<tax_pct, is_vat_applicable>>.
\* Product.is_vat_applicable is a non-null BooleanField and tax_percentage a
\* property that never returns None, so the tax_category branch is not taken.
ResolveTaxPct(p) ==
    LET flag == p.is_vat_applicable
        pct  == tax_percentage(p)
    IN  IF pct = 0 THEN <<(IF flag THEN 18 ELSE 0), flag>> ELSE <<pct, flag>>

\* ProductModel.objects.filter(barcode=key).first(): the catalog row whose
\* barcode is the key, if any. A suffixed key names no row.
HasProduct(key) == ~key.manual /\ key.base \in Barcodes
ProductOf(key) == products[key.base]

\* ------------------------------------------------------------------- cart
\* Override prices (the "price" query parameter of cart_add), in mills.
NoPrice == <<>>
OverridePrices == {<<10005>>}
PriceOf(vp) == vp[1]

\* The session dict of one cart line, money in cents. barcode and name are
\* functions of the key and are left out.
Line(price, qty, tax, dep, profit, total, var, low, left) ==
    [price |-> price, quantity |-> qty, tax_value |-> tax, deposit_value |-> dep,
     profit_value |-> profit, line_total |-> total, variable_price |-> var,
     low_stock |-> low, stock_left |-> left]

EmptyCart == [k \in {} |-> 0]
Put(c, key, line) == [k \in (DOMAIN c) \cup {key} |-> IF k = key THEN line ELSE c[k]]
Del(c, key) == [k \in (DOMAIN c) \ {key} |-> c[k]]
Max(a, b) == IF a >= b THEN a ELSE b

\* ExtractVat adding the VAT on top of the price instead of extracting it.
ExtractVatOnTop(unit, qty, pct) == RoundHalfUp(unit * qty * pct, 10 * 100)

\* The VAT contained in unit (mills) * qty at pct percent, in cents:
\* (unit_price * qty * tax_pct / (100 + tax_pct)).quantize(0.01, ROUND_HALF_UP).
ExtractVat(unit, qty, pct) == RoundHalfUp(unit * qty * pct, 10 * (100 + pct))

\* deposit_val of Cart.add: Product has no deposit_category attribute, so
\* getattr(product, "deposit_category", None) is None and the deposit is 0.00.
DepositVal(p) == 0

\* MergeLine with the VAT of the added units accumulated onto the line's VAT
\* instead of the VAT of the whole line being extracted again.
MergeLineAccumulating(existing, p, unit_price, var_flag, new_qty) ==
    LET stored_price == 10 * existing.price
        unit_price_used == IF var_flag THEN unit_price ELSE stored_price
        deposit_total == RoundHalfUp(DepositVal(p) * new_qty, 1)
        line_total == RoundHalfUp(unit_price_used * new_qty + 10 * deposit_total, 10)
        tp == ResolveTaxPct(p)
        total_vat == IF tp[2] /\ tp[1] > 0
                     THEN existing.tax_value
                          + ExtractVat(unit_price_used, new_qty - existing.quantity, tp[1])
                     ELSE 0
        profit_per_line ==
            RoundHalfUp(unit_price_used * new_qty
                        - 10 * (p.cost_price * new_qty + total_vat), 10)
        remaining == p.qty - new_qty
    IN  Line(FormatStr(unit_price_used), new_qty, total_vat, deposit_total,
             profit_per_line, line_total, var_flag \/ existing.variable_price,
             remaining <= p.low_stock_threshold, Max(0, remaining))

\* Cart.add, the branch that merges into an existing entry (lines 175-223):
\* every aggregate is recomputed for new_qty from the unit price used.
MergeLine(existing, p, unit_price, var_flag, new_qty) ==
    LET stored_price == 10 * existing.price
        unit_price_used == IF var_flag THEN unit_price ELSE stored_price
        deposit_total == RoundHalfUp(DepositVal(p) * new_qty, 1)
        line_total == RoundHalfUp(unit_price_used * new_qty + 10 * deposit_total, 10)
        tp == ResolveTaxPct(p)
        total_vat == IF tp[2] /\ tp[1] > 0
                     THEN ExtractVat(unit_price_used, new_qty, tp[1]) ELSE 0
        profit_per_line ==
            RoundHalfUp(unit_price_used * new_qty
                        - 10 * (p.cost_price * new_qty + total_vat), 10)
        remaining == p.qty - new_qty
    IN  Line(FormatStr(unit_price_used), new_qty, total_vat, deposit_total,
             profit_per_line, line_total, var_flag \/ existing.variable_price,
             remaining <= p.low_stock_threshold, Max(0, remaining))

\* Cart.add, the branch that creates a new entry (lines 224-257).
NewLine(p, unit_price, var_flag, qty) ==
    LET deposit_total == RoundHalfUp(DepositVal(p) * qty, 1)
        line_total == RoundHalfUp(unit_price * qty + 10 * deposit_total, 10)
        tp == ResolveTaxPct(p)
        total_vat == IF tp[2] /\ tp[1] > 0 THEN ExtractVat(unit_price, qty, tp[1]) ELSE 0
        profit_per_line ==
            RoundHalfUp(unit_price * qty - 10 * (p.cost_price * qty + total_vat), 10)
        remaining == p.qty - qty
    IN  Line(FormatStr(unit_price), qty, total_vat, deposit_total, profit_per_line,
             line_total, var_flag, remaining <= p.low_stock_threshold,
             Max(0, remaining))

\* What a Cart method returns, with the cart it leaves: the status dict
\* ("ok", "noop" or "error") and, for an error, its kind and the figures of
\* its message.
Ok(c) == [cart |-> c, status |-> "ok", kind |-> "", available |-> 0, requested |-> 0]
Noop(c) == [cart |-> c, status |-> "noop", kind |-> "", available |-> 0, requested |-> 0]
Err(c, k, a, r) ==
    [cart |-> c, status |-> "error", kind |-> k, available |-> a, requested |-> r]

\* InsufficientStock comparing the requested units alone with the stock.
InsufficientStockIgnoringCart(available_stock, current_in_cart, qty) ==
    qty > available_stock

\* The stock check of Cart.add (lines 158-162): the units already in the cart
\* count against the on-hand quantity.
InsufficientStock(available_stock, current_in_cart, qty) ==
    current_in_cart + qty > available_stock

\* Cart.add(product, quantity, variable_price) on the cart c, where key is
\* product.barcode and p the product object. The result carries the new cart,
\* the returned status and the figures of the insufficient-stock message.
Add(c, key, p, qty, variable_price) ==
    IF qty = 0 THEN Noop(c)
    ELSE
    LET var_flag == variable_price # NoPrice
        unit_price == IF var_flag THEN PriceOf(variable_price) ELSE 10 * p.sales_price
        available_stock == p.qty
        current_in_cart == IF key \in DOMAIN c THEN c[key].quantity ELSE 0
        requested_total == current_in_cart + qty
    IN  IF InsufficientStock(available_stock, current_in_cart, qty)
        THEN Err(c, "insufficient_stock", available_stock, requested_total)
        ELSE IF key \in DOMAIN c
        THEN IF c[key].quantity + qty <= 0
             THEN Ok(Del(c, key))
             ELSE Ok(Put(c, key, MergeLine(c[key], p, unit_price, var_flag,
                                           c[key].quantity + qty)))
        ELSE Ok(Put(c, key, NewLine(p, unit_price, var_flag, qty)))

\* Cart.remove.
Remove(c, key) == Del(c, key)

\* Cart.decrement(product_or_barcode, amount). The except branch of the tax
\* estimate (lines 303-315) cannot run: prev_qty > 0 guards the division.
\* The quotients prev/prev_qty are taken exactly; with prev_qty <= 5 the
\* 28-digit Decimal quotient either terminates or cannot land on a tie, so
\* the quantized results agree.
Decrement(c, key, amt) ==
    IF key \notin DOMAIN c THEN Err(c, "not_in_cart", 0, 0)
    ELSE IF amt <= 0 THEN Noop(c)
    ELSE
    LET existing == c[key]
        existing_qty == existing.quantity
        new_qty == existing_qty - amt
    IN  IF new_qty <= 0 THEN Ok(Del(c, key))
        ELSE
        LET unit_price == existing.price
            new_tax_total ==
                IF existing_qty > 0
                THEN RoundHalfUp(existing.tax_value * new_qty, existing_qty) ELSE 0
            new_deposit_total ==
                IF existing_qty > 0
                THEN RoundHalfUp(existing.deposit_value * new_qty, existing_qty) ELSE 0
            cost_price_val ==
                IF HasProduct(key) THEN ProductOf(key).cost_price
                ELSE RoundHalfUp(unit_price * existing_qty - existing.profit_value
                                 - existing.tax_value, existing_qty)
            new_line_total == unit_price * new_qty + new_tax_total + new_deposit_total
            new_profit == unit_price * new_qty - (cost_price_val * new_qty + new_tax_total)
            remaining == ProductOf(key).qty - new_qty
            updated == [existing EXCEPT !.quantity = new_qty,
                                        !.tax_value = new_tax_total,
                                        !.deposit_value = new_deposit_total,
                                        !.line_total = new_line_total,
                                        !.profit_value = new_profit]
        IN  Ok(Put(c, key,
                   IF HasProduct(key)
                   THEN [updated EXCEPT
                            !.low_stock = remaining <= ProductOf(key).low_stock_threshold,
                            !.stock_left = Max(0, remaining)]
                   ELSE updated))

\* SetQuantityExceedsStock letting one unit more than the stock through.
SetQuantityExceedsStockByTwo(key, q) == HasProduct(key) /\ q > ProductOf(key).qty + 1

\* The stock check of Cart.set_quantity (lines 384-393): made only when the
\* key names a catalog row.
SetQuantityExceedsStock(key, q) == HasProduct(key) /\ q > ProductOf(key).qty

\* SetQuantityLineTotal scaling the line's previous total and adding the VAT.
SetQuantityLineTotalScaled(existing, unit_price, q, new_tax_total, new_dep_total) ==
    RoundHalfUp(existing.line_total * q, existing.quantity)
        + new_tax_total + new_dep_total

\* new_line_total of Cart.set_quantity (line 438).
SetQuantityLineTotal(existing, unit_price, q, new_tax_total, new_dep_total) ==
    unit_price * q + new_tax_total + new_dep_total

\* Cart.set_quantity(product_or_barcode, quantity). Without a catalog row for
\* the key, cost_price_val is never bound and the profit falls to 0.00 in the
\* except branch (lines 441-444).
SetQuantity(c, key, q) ==
    IF key \notin DOMAIN c THEN Err(c, "not_in_cart", 0, 0)
    ELSE IF q <= 0 THEN Ok(Del(c, key))
    ELSE IF SetQuantityExceedsStock(key, q)
    THEN Err(c, "insufficient_stock", ProductOf(key).qty, 0)
    ELSE
    LET existing == c[key]
        unit_price == existing.price
        prev_qty == existing.quantity
        prop_tax == IF prev_qty > 0
                    THEN RoundHalfUp(existing.tax_value * q, prev_qty) ELSE 0
        new_dep_total == IF prev_qty > 0
                         THEN RoundHalfUp(existing.deposit_value * q, prev_qty) ELSE 0
        tp == ResolveTaxPct(ProductOf(key))
        new_tax_total ==
            IF HasProduct(key)
            THEN (IF tp[2] /\ tp[1] > 0 THEN ExtractVat(10 * unit_price, q, tp[1]) ELSE 0)
            ELSE prop_tax
        new_line_total ==
            SetQuantityLineTotal(existing, unit_price, q, new_tax_total, new_dep_total)
        new_profit ==
            IF HasProduct(key)
            THEN unit_price * q - (ProductOf(key).cost_price * q + new_tax_total)
            ELSE 0
        remaining == ProductOf(key).qty - q
        updated == [existing EXCEPT !.quantity = q,
                                    !.tax_value = new_tax_total,
                                    !.deposit_value = new_dep_total,
                                    !.line_total = new_line_total,
                                    !.profit_value = new_profit]
    IN  Ok(Put(c, key,
               IF HasProduct(key)
               THEN [updated EXCEPT
                        !.low_stock = remaining <= ProductOf(key).low_stock_threshold,
                        !.stock_left = Max(0, remaining)]
               ELSE updated))

\* Cart.returns: quantity, tax_value, line_total and profit_value are negated;
\* price and deposit_value are not touched.
Abs(x) == IF x >= 0 THEN x ELSE -x
Returns(c) ==
    [k \in DOMAIN c |->
        [c[k] EXCEPT !.quantity = -Abs(@), !.tax_value = -@,
                     !.line_total = -@, !.profit_value = -@]]

\* ---------------------------------------------------- the cart's requests
\* The amounts keyed in through manualAmount, in cents.
ManualAmounts == {500}
NoKey == [base |-> "", manual |-> FALSE, amt |-> 0]

\* The product object a cart key was added from: the catalog row, or
\* manualAmount's copy of it priced at the amount.
ManualProduct(b, amount) == [products[b] EXCEPT !.sales_price = amount]
ProductObj(key) ==
    IF key.manual THEN ManualProduct(key.base, key.amt) ELSE products[key.base]

NoCall == [session |-> "", op |-> "", key |-> NoKey, qty |-> 0, vp |-> NoPrice,
           status |-> "", kind |-> "", available |-> 0, requested |-> 0,
           had |-> FALSE, current |-> 0, chain |-> 0, sum |-> 0, again |-> FALSE]
NoRecord == [NoCall EXCEPT !.op = "unrecorded"]

\* The record of a Cart call: the session, the method, its arguments, what it returned,
\* whether the key had a line (and at which quantity) when it was called,
\*   chain, sum: how many successful add calls at one unit price, and for how
\*               many units in all, have built the key's line since it was
\*               created (0 when the line is not the result of adds alone);
\*   again:      the call repeats the call before it, which succeeded.
Called(s, op, key, qty, vp, r) ==
    LET grows == /\ op = "add" /\ r.status = "ok" /\ key \in DOMAIN r.cart
                 /\ last.op = "add" /\ last.status = "ok" /\ last.key = key
                 /\ last.vp = vp /\ last.chain >= 1
        fresh == /\ op = "add" /\ r.status = "ok" /\ key \in DOMAIN r.cart
                 /\ key \notin DOMAIN cart[s]
    IN  [session |-> s, op |-> op, key |-> key, qty |-> qty, vp |-> vp,
         status |-> r.status, kind |-> r.kind,
         available |-> r.available, requested |-> r.requested,
         had |-> key \in DOMAIN cart[s],
         current |-> IF key \in DOMAIN cart[s] THEN cart[s][key].quantity ELSE 0,
         chain |-> IF fresh THEN 1 ELSE IF grows THEN last.chain + 1 ELSE 0,
         sum |-> IF fresh THEN qty ELSE IF grows THEN last.sum + qty ELSE 0,
         again |-> /\ last.op = op /\ last.key = key /\ last.qty = qty
                   /\ last.vp = vp /\ last.status = "ok"]

\* A Cart method call of a request of session s: the request loads the
\* session, calls the method and saves the session with its response. The
\* call is recorded unless the specification started without a record.
Apply(s, op, key, qty, vp, r) ==
    /\ cart' = [cart EXCEPT ![s] = r.cart]
    /\ last' = IF last = NoRecord THEN last ELSE Called(s, op, key, qty, vp, r)
    /\ UNCHANGED <<session, req, transactions, productTransactions, clock>>
    /\ UNCHANGED debtVars

\* cart_add: /cart/add/<id>/<qty>/ with an optional price override, for the
\* barcodes bs, quantities qs and prices vps. A qty <= 0 redirects without
\* touching the cart.
CartAdd(s, bs, qs, vps) ==
    \E b \in bs, q \in qs, vp \in vps :
        /\ Apply(s, "add", PlainKey(b), q, vp,
                 Add(cart[s], PlainKey(b), products[b], q, vp))
        /\ UNCHANGED products

\* A quantity as a caller hands it over: text that int() parses, QtyText(n),
\* or text it does not, NotANumber.
NotANumber == <<>>
QtyText(n) == <<n>>
QtyTexts == {NotANumber} \cup {QtyText(n) : n \in 0..MaxQty}

\* try: int(quantity) / except Exception: the default.
IntOr(quantity, default) == IF quantity = NotANumber THEN default ELSE quantity[1]

\* Cart.add from its first line: the quantity is parsed, 1 taking the place
\* of what does not parse (lines 131-134).
AddQuantity(c, key, p, quantity, variable_price) ==
    Add(c, key, p, IntOr(quantity, 1), variable_price)

\* Cart.set_quantity from its first line: the key is looked up, then the
\* quantity is parsed, 0 taking the place of what does not parse (lines
\* 375-378).
SetQuantityText(c, key, quantity) ==
    SetQuantity(c, key, IntOr(quantity, 0))

\* cart_add with the <qty> segment of the path as it was sent: the view
\* parses it the way Cart.add does and redirects on q <= 0.
CartAddText(s, bs, quantities) ==
    \E b \in bs, quantity \in quantities :
        LET q == IntOr(quantity, 1)
        IN  /\ q > 0
            /\ Apply(s, "add", PlainKey(b), q, NoPrice,
                     AddQuantity(cart[s], PlainKey(b), products[b], QtyText(q), NoPrice))
            /\ UNCHANGED products

\* A call of Cart.set_quantity with the quantity as text.
CartSetQuantityText(s, bs, quantities) ==
    \E b \in bs, quantity \in quantities :
        /\ Apply(s, "set_quantity", PlainKey(b), IntOr(quantity, 0), NoPrice,
                 SetQuantityText(cart[s], PlainKey(b), quantity))
        /\ UNCHANGED products

\* A call of Cart.add(product, quantity) with any integer quantity, as the
\* method's signature takes it; the view cart_add only passes q >= 1.
CartAddCall(s, bs, qs) ==
    \E b \in bs, q \in qs :
        /\ Apply(s, "add", PlainKey(b), q, NoPrice,
                 Add(cart[s], PlainKey(b), products[b], q, NoPrice))
        /\ UNCHANGED products

\* manualAmount: the product's barcode gets the amount as a suffix and its
\* sales_price becomes the amount; one unit is added.
ManualAmount(s, bs) ==
    \E b \in bs, amount \in ManualAmounts :
        /\ Apply(s, "add", ManualKey(b, amount), 1, NoPrice,
                 Add(cart[s], ManualKey(b, amount), ManualProduct(b, amount), 1, NoPrice))
        /\ UNCHANGED products

\* item_decrement: Cart.decrement(product) of a catalog product, amount 1.
ItemDecrement(s, bs) ==
    \E b \in bs :
        /\ Apply(s, "decrement", PlainKey(b), 1, NoPrice,
                 Decrement(cart[s], PlainKey(b), 1))
        /\ UNCHANGED products

\* cart_update_quantity of a catalog product: quantity 0 removes the line,
\* another one is handed to Cart.set_quantity.
CartUpdateQuantity(s, bs) ==
    \E b \in bs, q \in 0..MaxQty :
        /\ IF q = 0
           THEN Apply(s, "remove", PlainKey(b), 0, NoPrice,
                      Ok(Remove(cart[s], PlainKey(b))))
           ELSE Apply(s, "set_quantity", PlainKey(b), q, NoPrice,
                      SetQuantity(cart[s], PlainKey(b), q))
        /\ UNCHANGED products

\* item_clear: Cart.remove of a catalog product's line.
ItemClear(s, bs) ==
    \E b \in bs :
        /\ Apply(s, "item_clear", PlainKey(b), 0, NoPrice,
                 Ok(Remove(cart[s], PlainKey(b))))
        /\ UNCHANGED products

\* returnsTransaction: Cart.returns.
ReturnsTransaction(s) ==
    /\ Apply(s, "returns", NoKey, 0, NoPrice, Ok(Returns(cart[s])))
    /\ UNCHANGED products

\* cart_clear: Cart.clear.
CartClear(s) ==
    /\ Apply(s, "clear", NoKey, 0, NoPrice, Ok(EmptyCart))
    /\ UNCHANGED products

\* ------------------------------------------------------------ the sale
\* The window of endTransaction's idempotency check, in seconds.
DedupeWindow == 30
\* How far one step of the clock advances it, and where the clock stops.
TickSeconds == 40
MaxClock == 40
\* How many endTransaction requests a behaviour holds.
MaxRequests == 2
\* How many carts a session may hold suspended.
MaxSuspended == 1

\* Each session is the login of one cashier: the session's name stands for
\* request.user.pk as well.
NoFingerprint == <<>>
NoTs == -1
NoSession == [last_tx_fingerprint |-> NoFingerprint, last_tx_id |-> 0,
              last_tx_ts |-> NoTs, pending_tx_fingerprint |-> NoFingerprint,
              Cart_Sessions |-> <<>>]

\* sum_cart_field(cart, field_name), in cents.
RECURSIVE SumKeys(_, _, _)
SumKeys(c, field, keys) ==
    IF keys = {} THEN 0
    ELSE LET k == CHOOSE x \in keys : TRUE
         IN  c[k][field] + SumKeys(c, field, keys \ {k})
sum_cart_field(c, field) == SumKeys(c, field, DOMAIN c)

\* The payment label of endTransaction(type, value).
PaymentLabel(type, value) ==
    IF type = "card"
    THEN (IF value = "EBT" THEN "EBT" ELSE "DEBIT/CREDIT")
    ELSE IF type = "cash" THEN "CASH" ELSE type

\* The request fingerprint: sha256 of user.pk | payment label | total | cart,
\* taken to be free of collisions.
Fingerprint(user, payment_label, total_dec, c) == <<user, payment_label, total_dec, c>>

\* last_dt of endTransaction: USE_TZ is True, so last_tx_ts is the isoformat
\* of an aware datetime, fromisoformat gives an aware datetime back and
\* timezone.make_aware raises ValueError on it; the except branch leaves
\* last_dt None.
NoDt == -1
LastDt(last_ts) == NoDt

\* ProcessedRecently reading the pending marker in place of the last
\* fingerprint.
ProcessedRecentlyByPendingMarker(se, fingerprint, now) ==
    /\ se.pending_tx_fingerprint = fingerprint
    /\ se.last_tx_id # 0
    /\ se.last_tx_ts # NoTs
    /\ (LastDt(se.last_tx_ts) = NoDt \/ now - LastDt(se.last_tx_ts) <= DedupeWindow)

\* The test of lines 496-502: the fingerprint was processed recently.
ProcessedRecently(se, fingerprint, now) ==
    /\ se.last_tx_fingerprint = fingerprint
    /\ se.last_tx_id # 0
    /\ se.last_tx_ts # NoTs
    /\ (LastDt(se.last_tx_ts) = NoDt \/ now - LastDt(se.last_tx_ts) <= DedupeWindow)

\* transaction._extract_vat_from_gross, cents.
ExtractVatFromGross(gross, pct) ==
    IF pct = 0 \/ gross = 0 THEN 0 ELSE RoundHalfUp(gross * pct, pct + 100)

\* The catalog row transaction.save's totals loop resolves a payload barcode
\* to: the row of that barcode, else the row of the part before "_".
HasItem(key) == key.base \in Barcodes
\* getattr(getattr(item, "tax_category", None), "tax_percentage", 0).
CategoryTaxPct(p) == IF p.tax_category = NoCategory THEN 0 ELSE CategoryPct(p.tax_category)

\* The tax amount of one payload line in transaction.save: the payload's
\* tax_value when it is not zero, else the VAT extracted from price * qty at
\* the item's category percentage.
LineTaxAmount(key, line, has_item) ==
    LET gross_line == line.price * line.quantity
        tax_pct == IF has_item THEN CategoryTaxPct(products[key.base]) ELSE 0
    IN  IF line.tax_value = 0 /\ tax_pct # 0
        THEN ExtractVatFromGross(gross_line, tax_pct)
        ELSE line.tax_value

RECURSIVE SumGross(_, _)
SumGross(c, keys) ==
    IF keys = {} THEN 0
    ELSE LET k == CHOOSE x \in keys : TRUE
         IN  c[k].price * c[k].quantity + SumGross(c, keys \ {k})

RECURSIVE SumTax(_, _)
SumTax(c, keys) ==
    IF keys = {} THEN 0
    ELSE LET k == CHOOSE x \in keys : TRUE
         IN  LineTaxAmount(k, c[k], HasItem(k)) + SumTax(c, keys \ {k})

\* The header transaction.save stores for the payload c: the totals are
\* recomputed from the payload, whatever addTransaction passed.
\* transaction_dt is the time in transaction_id, to the second; debt_created
\* and paid_amount are the columns' defaults; products is the payload column.
Header(id, user, payment_type, c, dt) ==
    LET computed_subtotal == SumGross(c, DOMAIN c)
        computed_deposit_total == sum_cart_field(c, "deposit_value")
    IN  [transaction_id |-> id, transaction_dt |-> dt,
         user |-> user, payment_type |-> payment_type,
         products |-> c, paid_amount |-> 0,
         sub_total |-> computed_subtotal,
         tax_total |-> SumTax(c, DOMAIN c),
         deposit_total |-> computed_deposit_total,
         total_sale |-> computed_subtotal + computed_deposit_total,
         debt_created |-> FALSE]

\* The productTransaction row transaction.save creates for a payload line;
\* here the item is looked up by the payload barcode alone. Without an item
\* the cost price, the department and the percentage come from the payload,
\* which has none of the three keys: 0, "" and 0.
Row(id, key, line) ==
    [transaction |-> id, barcode |-> key, qty |-> line.quantity,
     sales_price |-> line.price,
     cost_price |-> IF HasProduct(key) THEN products[key.base].cost_price ELSE 0,
     department |-> IF HasProduct(key) THEN products[key.base].department ELSE "",
     tax_percentage |-> IF HasProduct(key) THEN CategoryTaxPct(products[key.base]) ELSE 0,
     tax_amount |-> LineTaxAmount(key, line, HasProduct(key))]

\* A row set that leaves out the lines no product carries the barcode of.
RowsOfStockedLines(id, c) == {Row(id, k, c[k]) : k \in {j \in DOMAIN c : HasProduct(j)}}

\* The rows transaction.save creates for a new header: the loop over the
\* payload creates one for every line, none of whose inserts fails for the
\* lines a cart can hold.
Rows(id, c) == {Row(id, k, c[k]) : k \in DOMAIN c}

\* productTransaction.save, for every row of the payload c: the on-hand
\* quantity of the product whose barcode is the row's is reduced by the row's
\* qty with an F() update; nothing compares the two.
StockAfter(c) ==
    [b \in Barcodes |->
        IF PlainKey(b) \in DOMAIN c
        THEN [products[b] EXCEPT !.qty = @ - c[PlainKey(b)].quantity]
        ELSE products[b]]

\* An endTransaction or endDebtTransaction request: pc is "idle" (not sent), "marked" (the pending
\* marker is set in the request's copy of the session and addTransaction is
\* to be called), "saved" (addTransaction has returned), "respond" (the
\* request gave up after changing its copy of the session) or "done" (the
\* response is out). to and id are the redirect of the response.
Requests == 1..MaxRequests
NoDueDate == -1
NoRequest == [pc |-> "idle", s |-> "", type |-> "", value |-> "", tendered |-> 0,
              paid_amount |-> 0, due_date |-> NoDueDate,
              fingerprint |-> NoFingerprint, now |-> 0, total |-> 0,
              cart |-> EmptyCart, sess |-> NoSession,
              result |-> 0, to |-> "", id |-> 0]

\* The requests are numbered in the order they arrive.
Arrives(r) == req[r].pc = "idle" /\ \A q \in Requests : q < r => req[q].pc # "idle"

\* The tendered amounts tried for a cash sale of total cents: the total and
\* one cent less.
Tendered(total) == {total, total - 1}
CardValues == {"DEBIT_CREDIT"}

\* endTransaction up to the call of addTransaction. The session is loaded
\* when the request first reads it; what the request writes to it stays in
\* the request's copy until the response is sent.
EndTransaction(r, s, type, value, tendered) ==
    /\ Arrives(r)
    /\ LET c == cart[s]
           total_dec == sum_cart_field(c, "line_total")
           payment_label == PaymentLabel(type, value)
           fingerprint == Fingerprint(s, payment_label, total_dec, c)
           now == clock
           se == session[s]
           asked == [NoRequest EXCEPT !.s = s, !.type = type, !.value = value,
                        !.tendered = tendered, !.fingerprint = fingerprint,
                        !.now = now, !.total = total_dec, !.cart = c, !.sess = se]
       IN  req' = [req EXCEPT ![r] =
             IF DOMAIN c = {}
             THEN [asked EXCEPT !.pc = "done", !.to = "register"]
             ELSE IF ProcessedRecently(se, fingerprint, now)
             THEN [asked EXCEPT !.pc = "done", !.to = "receipt", !.id = se.last_tx_id]
             ELSE IF se.pending_tx_fingerprint = fingerprint
             THEN (IF se.last_tx_id # 0
                   THEN [asked EXCEPT !.pc = "done", !.to = "receipt",
                                      !.id = se.last_tx_id]
                   ELSE [asked EXCEPT !.pc = "done", !.to = "register"])
             ELSE IF type = "cash" /\ tendered < total_dec
             THEN [asked EXCEPT !.pc = "respond", !.to = "register",
                                !.sess.pending_tx_fingerprint = NoFingerprint]
             ELSE [asked EXCEPT !.pc = "marked",
                                !.sess.pending_tx_fingerprint = fingerprint]]
    /\ UNCHANGED <<products, cart, last, session, transactions,
                   productTransactions, clock>>
    /\ UNCHANGED debtVars

\* addTransaction: inside one database transaction the header is created
\* (transaction.save), a productTransaction row is created for every line of
\* the cart and each row's save reduces the stock. transaction_id is the
\* time of the call to the microsecond, taken to differ between calls.
AddTransaction(r) ==
    /\ req[r].pc = "marked"
    /\ LET id == Len(transactions) + 1
           c == req[r].cart
       IN  /\ transactions' = Append(transactions,
                 Header(id, req[r].s, PaymentLabel(req[r].type, req[r].value), c, clock))
           /\ productTransactions' =
                 productTransactions \cup Rows(id, c)
           /\ products' = StockAfter(c)
           /\ req' = [req EXCEPT ![r].pc = "saved", ![r].result = id]
    /\ UNCHANGED <<cart, last, session, clock>>
    /\ UNCHANGED debtVars

\* A response that clears the cart whether or not a sale was stored.
CartAfterAlwaysCleared(sold, c) == EmptyCart

\* The cart the response of a commit leaves in the session: Cart.clear()
\* after a sale, else the cart of the request's copy of the session.
CartAfter(sold, c) == IF sold THEN EmptyCart ELSE c

\* The end of endTransaction and the response: after a sale the fingerprint
\* is recorded as the last one, the pending marker is dropped and the cart is
\* cleared; the session middleware then writes the request's copy of the
\* session over the stored one.
EndTransactionRespond(r) ==
    /\ req[r].pc \in {"saved", "respond"}
    /\ LET s == req[r].s
           sold == req[r].pc = "saved"
       IN  /\ session' = [session EXCEPT ![s] =
                 IF sold
                 THEN [req[r].sess EXCEPT !.last_tx_fingerprint = req[r].fingerprint,
                                          !.last_tx_id = req[r].result,
                                          !.last_tx_ts = req[r].now,
                                          !.pending_tx_fingerprint = NoFingerprint]
                 ELSE req[r].sess]
           /\ cart' = [cart EXCEPT ![s] = CartAfter(sold, req[r].cart)]
           /\ req' = [req EXCEPT ![r].pc = "done",
                                 ![r].to = IF sold THEN "receipt" ELSE "register",
                                 ![r].id = IF sold THEN req[r].result ELSE 0]
    /\ UNCHANGED <<products, last, transactions, productTransactions, clock>>
    /\ UNCHANGED debtVars

\* suspendTransaction: a cart that is not empty is copied under a new key of
\* Cart_Sessions. (The response redirects to cart_clear.)
SuspendTransaction(s) ==
    /\ DOMAIN cart[s] # {}
    /\ Len(session[s].Cart_Sessions) < MaxSuspended
    /\ session' = [session EXCEPT ![s].Cart_Sessions = Append(@, cart[s])]
    /\ UNCHANGED <<products, cart, last, req, transactions, productTransactions, clock>>
    /\ UNCHANGED debtVars

\* recallTransaction with the key of a suspended cart, the cart being empty:
\* the suspended cart becomes the cart and leaves Cart_Sessions.
RecallTransaction(s) ==
    /\ DOMAIN cart[s] = {}
    /\ \E i \in 1..Len(session[s].Cart_Sessions) :
          /\ cart' = [cart EXCEPT ![s] = session[s].Cart_Sessions[i]]
          /\ session' = [session EXCEPT ![s].Cart_Sessions =
                [j \in 1..(Len(@) - 1) |-> IF j < i THEN @[j] ELSE @[j + 1]]]
    /\ UNCHANGED <<products, last, req, transactions, productTransactions, clock>>
    /\ UNCHANGED debtVars

\* Time passes.
Tick ==
    /\ clock + TickSeconds <= MaxClock
    /\ clock' = clock + TickSeconds
    /\ UNCHANGED <<products, cart, last, session, req, transactions, productTransactions>>
    /\ UNCHANGED debtVars


\* ------------------------------------------------------------- the debts
\* The last day the date reaches, and how many payment requests a behaviour
\* holds.
MaxDay == 1
MaxPayRequests == 2
\* The idempotency window of endDebtTransaction, in seconds.
DebtDedupeWindow == 6

\* The due dates a credit sale is given: none, or day 0.
DueDates == {NoDueDate, 0}

\* A Debt row; status is the column's default until update_status writes it.
NoDebt == [transaction |-> 0, total_amount |-> 0, paid_amount |-> 0,
           status |-> "", due_date |-> NoDueDate]
NewDebt(tx, total_amount, paid_amount, due_date) ==
    [transaction |-> tx, total_amount |-> total_amount, paid_amount |-> paid_amount,
     status |-> "PENDING", due_date |-> due_date]

\* Debt.balance.
balance(d) == d.total_amount - d.paid_amount

\* The status Debt.update_status computes from the instance's fields.
NewStatus(paid, total, due_date, day) ==
    IF total > 0 /\ paid >= total THEN "PAID"
    ELSE IF paid > 0 /\ paid < total THEN "PARTIAL"
    ELSE IF due_date # NoDueDate /\ due_date < day THEN "OVERDUE"
    ELSE "PENDING"

\* Debt.update_status called on the instance self of row pk, on the rows ds:
\* the row's status is written when the computed status differs from the
\* instance's.
update_status(ds, pk, self) ==
    LET new_status == NewStatus(self.paid_amount, self.total_amount, self.due_date, today)
    IN  IF new_status # self.status THEN [ds EXCEPT ![pk].status = new_status] ELSE ds

\* The F() increment writing the amount over the stored paid_amount.
FIncrementOverwriting(paid_amount, amount) == amount

\* DebtPayment.save, the F() update: paid_amount = F('paid_amount') + amount.
FIncrement(paid_amount, amount) == paid_amount + amount

\* DebtPayment.objects.create up to the refresh of the parent: the row is
\* inserted and the parent's paid_amount is incremented in the database.
Payment(pk, amount) == [debt |-> pk, amount |-> amount]
Paid(ds, pk, amount) == [ds EXCEPT ![pk].paid_amount = FIncrement(@, amount)]

\* Sum('amount') over the payments of debt pk.
RECURSIVE SumPayments(_, _)
SumPayments(ps, pk) ==
    IF ps = <<>> THEN 0
    ELSE (IF ps[1].debt = pk THEN ps[1].amount ELSE 0) + SumPayments(Tail(ps), pk)

\* The Debt rows of transaction tx.
DebtsOf(ds, tx) == {pk \in 1..Len(ds) : ds[pk].transaction = tx}

\* get_or_create creating a row whether or not one exists.
GetOrCreateAlwaysCreating(ds, tx, defaults) == Append(ds, defaults)

\* Debt.objects.get_or_create(transaction=obj, defaults=...): the rows after it.
GetOrCreate(ds, tx, defaults) == IF DebtsOf(ds, tx) # {} THEN ds ELSE Append(ds, defaults)

\* The DEBT handling of transaction.save for header hdr (lines 305-345): when
\* the instance is a DEBT sale not marked debt_created and no Debt row exists
\* for it, one is created with the header's total and paid amount (0.00 from
\* addTransaction, which passes no paid_amount). For a paid amount above
\* 0.00 a DebtPayment is created, whose save increments the parent's
\* paid_amount and updates the status on the row read back; update_status is
\* then called on the instance that was created.
OpensDebt(ds, hdr) ==
    hdr.payment_type = "DEBT" /\ ~hdr.debt_created /\ DebtsOf(ds, hdr.transaction_id) = {}
SaveDebt(ds, hdr, due_date) ==
    IF OpensDebt(ds, hdr)
    THEN LET paid_amt == hdr.paid_amount
             debt == NewDebt(hdr.transaction_id, hdr.total_sale, paid_amt, due_date)
             created == Append(ds, debt)
             pk == Len(created)
             paid == IF paid_amt > 0
                     THEN LET incremented == Paid(created, pk, paid_amt)
                          IN  update_status(incremented, pk, incremented[pk])
                     ELSE created
         IN  update_status(paid, pk, debt)
    ELSE ds

\* The DebtPayment rows after the DEBT handling of transaction.save.
SaveDebtPayments(ps, ds, hdr) ==
    IF OpensDebt(ds, hdr) /\ hdr.paid_amount > 0
    THEN Append(ps, Payment(Len(ds) + 1, hdr.paid_amount))
    ELSE ps

Min(a, b) == IF a <= b THEN a ELSE b

\* endDebtTransaction up to the call of addTransaction: an empty cart
\* redirects to the register; a sale of this user with this total made in the
\* last six seconds clears the cart and redirects to its receipt.
EndDebtTransaction(r, s, paid_amount, due_date) ==
    /\ Arrives(r)
    /\ LET c == cart[s]
           total_dec == sum_cart_field(c, "line_total")
           now == clock
           existing_tx == {i \in 1..Len(transactions) :
                              /\ transactions[i].user = s
                              /\ transactions[i].total_sale = total_dec
                              /\ transactions[i].transaction_dt >= now - DebtDedupeWindow}
           asked == [NoRequest EXCEPT !.s = s, !.type = "debt", !.now = now,
                        !.total = total_dec, !.cart = c, !.sess = session[s]]
       IN  IF DOMAIN c = {}
           THEN /\ req' = [req EXCEPT ![r] = [asked EXCEPT !.pc = "done", !.to = "register"]]
                /\ UNCHANGED cart
           ELSE IF existing_tx # {}
           THEN /\ req' = [req EXCEPT ![r] =
                      [asked EXCEPT !.pc = "done", !.to = "receipt",
                                    !.id = CHOOSE i \in existing_tx :
                                              \A j \in existing_tx : j <= i]]
                /\ cart' = [cart EXCEPT ![s] = EmptyCart]
           ELSE /\ req' = [req EXCEPT ![r] =
                      [asked EXCEPT !.pc = "debt", !.paid_amount = paid_amount,
                                    !.due_date = due_date]]
                /\ UNCHANGED cart
    /\ UNCHANGED <<products, last, session, transactions, productTransactions, clock>>
    /\ UNCHANGED debtVars

\* addTransaction for payment_type DEBT, one database transaction: the header,
\* the rows and the stock as for any sale; transaction.save opens the Debt;
\* addTransaction then gets it with get_or_create, sets its fields from its
\* own arguments and saves it, records the initial payment, sets the
\* instance's paid_amount to the sum of the payments and updates the status.
AddDebtTransaction(r) ==
    /\ req[r].pc = "debt"
    /\ LET id == Len(transactions) + 1
           c == req[r].cart
           total_dec == req[r].total
           due == req[r].due_date
           hdr == Header(id, req[r].s, "DEBT", c, clock)
           opened == SaveDebt(debts, hdr, due)
           got == GetOrCreate(opened, id, NewDebt(id, total_dec, 0, due))
           pk == CHOOSE k \in DebtsOf(got, id) : TRUE
           debt == [got[pk] EXCEPT !.total_amount = total_dec, !.paid_amount = 0,
                                   !.due_date = due]
           saved == [got EXCEPT ![pk] = debt]
           initial_paid == req[r].paid_amount
           actual_initial == Min(initial_paid, total_dec)
           payments == IF initial_paid > 0
                       THEN Append(debtPayments, Payment(pk, actual_initial))
                       ELSE debtPayments
           paid == IF initial_paid > 0
                   THEN LET ds == Paid(saved, pk, actual_initial)
                        IN  update_status(ds, pk, ds[pk])
                   ELSE saved
           recomputed == [debt EXCEPT !.paid_amount = SumPayments(payments, pk)]
       IN  /\ transactions' = Append(transactions, [hdr EXCEPT !.debt_created = TRUE])
           /\ productTransactions' =
                 productTransactions \cup Rows(id, c)
           /\ products' = StockAfter(c)
           /\ debts' = update_status(paid, pk, recomputed)
           /\ debtPayments' = payments
           /\ req' = [req EXCEPT ![r].pc = "debtsaved", ![r].result = id]
    /\ UNCHANGED <<cart, last, session, clock, pay, today, receiving,
                   stockAdjustments, adjust>>

\* The end of endDebtTransaction and the response: the cart is cleared and
\* the session middleware writes the request's copy of the session over the
\* stored one.
EndDebtTransactionRespond(r) ==
    /\ req[r].pc = "debtsaved"
    /\ LET s == req[r].s
       IN  /\ session' = [session EXCEPT ![s] = req[r].sess]
           /\ cart' = [cart EXCEPT ![s] = CartAfter(TRUE, req[r].cart)]
           /\ req' = [req EXCEPT ![r].pc = "done", ![r].to = "receipt",
                                 ![r].id = req[r].result]
    /\ UNCHANGED <<products, last, transactions, productTransactions, clock>>
    /\ UNCHANGED debtVars

\* A header taken to have no rows, whatever is stored.
HasRowsNever(i) == FALSE

\* productTransaction.objects.filter(transaction=self).exists()
HasRows(i) == \E row \in productTransactions : row.transaction = i

\* transaction.save called again on header i as read from the database: the
\* totals are computed again from the stored payload against the catalog as
\* it is now, rows are created (each reducing the stock) only if the header
\* has none, and the DEBT handling runs as at the first save.
TransactionResave(i) ==
    /\ i \in 1..Len(transactions)
    /\ LET self == transactions[i]
           c == self.products
           hdr == Header(i, self.user, self.payment_type, c, self.transaction_dt)
       IN  /\ debts' = SaveDebt(debts, self, NoDueDate)
           /\ debtPayments' = SaveDebtPayments(debtPayments, debts, self)
           /\ transactions' = [transactions EXCEPT ![i] =
                 [hdr EXCEPT !.paid_amount = self.paid_amount,
                             !.debt_created =
                                 self.debt_created \/ Len(debts') > Len(debts)]]
           /\ productTransactions' =
                 IF HasRows(i) THEN productTransactions
                 ELSE productTransactions \cup Rows(i, c)
           /\ products' = IF HasRows(i) THEN products ELSE StockAfter(c)
    /\ UNCHANGED <<cart, last, session, req, clock,
                   pay, today, receiving, stockAdjustments, adjust>>

\* transaction.save on a new header built from the cart of s with the given
\* payment type and paid_amount: the header, a row for every line of the
\* payload, each reducing the stock, and the DEBT handling.
TransactionCreate(s, payment_type, paid_amount) ==
    /\ DOMAIN cart[s] # {}
    /\ Len(transactions) < MaxRequests
    /\ LET id == Len(transactions) + 1
           c == cart[s]
           self == [Header(id, s, payment_type, c, clock) EXCEPT !.paid_amount = paid_amount]
       IN  /\ debts' = SaveDebt(debts, self, NoDueDate)
           /\ debtPayments' = SaveDebtPayments(debtPayments, debts, self)
           /\ transactions' = Append(transactions,
                 [self EXCEPT !.debt_created = Len(debts') > Len(debts)])
           /\ productTransactions' = productTransactions \cup Rows(id, c)
           /\ products' = StockAfter(c)
    /\ UNCHANGED <<cart, last, session, req, clock,
                   pay, today, receiving, stockAdjustments, adjust>>

\* A payment request: pc is "idle" (not sent), "loaded" (the view has read
\* the Debt row and accepted the amount), "paid" (the DebtPayment row is
\* inserted, the parent incremented and read again) or "done". debt is the
\* view's instance of the row, fresh the one DebtPayment.save reads.
PayRequests == 1..MaxPayRequests
NoPay == [pc |-> "idle", view |-> "", debt_id |-> 0, amount |-> 0,
          debt |-> NoDebt, fresh |-> NoDebt, result |-> ""]
PayArrives(r) == pay[r].pc = "idle" /\ \A q \in PayRequests : q < r => pay[q].pc # "idle"
PayAmounts == {25000, 50000}

\* pay_debt (POST) for an existing debt, up to DebtPayment.objects.create:
\* an amount that is not positive is refused.
PayDebt(r, debt_id, amount) ==
    /\ PayArrives(r)
    /\ debt_id \in 1..Len(debts)
    /\ pay' = [pay EXCEPT ![r] =
          IF amount <= 0
          THEN [NoPay EXCEPT !.pc = "done", !.result = "error"]
          ELSE [NoPay EXCEPT !.pc = "loaded", !.view = "pay_debt", !.debt_id = debt_id,
                             !.amount = amount, !.debt = debts[debt_id]]]
    /\ UNCHANGED <<products, cart, last, session, req, transactions, productTransactions,
                   clock, debts, debtPayments, today, receiving, stockAdjustments, adjust>>

\* debt_payment (POST) for an existing debt, up to DebtPayment.objects.create:
\* an amount that is not positive or exceeds the balance of the row as read
\* is refused.
DebtPaymentPost(r, debt_id, amount) ==
    /\ PayArrives(r)
    /\ debt_id \in 1..Len(debts)
    /\ pay' = [pay EXCEPT ![r] =
          IF amount <= 0 \/ amount > balance(debts[debt_id])
          THEN [NoPay EXCEPT !.pc = "done", !.result = "error"]
          ELSE [NoPay EXCEPT !.pc = "loaded", !.view = "debt_payment",
                             !.debt_id = debt_id, !.amount = amount,
                             !.debt = debts[debt_id]]]
    /\ UNCHANGED <<products, cart, last, session, req, transactions, productTransactions,
                   clock, debts, debtPayments, today, receiving, stockAdjustments, adjust>>

\* DebtPayment.save of a new payment, up to update_status: the row is
\* inserted, the parent's paid_amount incremented with F() and the parent
\* read again.
DebtPaymentSave(r) ==
    /\ pay[r].pc = "loaded"
    /\ LET pk == pay[r].debt_id
       IN  /\ debtPayments' = Append(debtPayments, Payment(pk, pay[r].amount))
           /\ debts' = Paid(debts, pk, pay[r].amount)
           /\ pay' = [pay EXCEPT ![r].pc = "paid", ![r].fresh = debts'[pk]]
    /\ UNCHANGED <<products, cart, last, session, req, transactions, productTransactions,
                   clock, today, receiving, stockAdjustments, adjust>>

\* The rest of the request: update_status on the instance DebtPayment.save
\* read; debt_payment then adds the amount to the paid_amount of its own
\* instance and calls update_status on that.
DebtPaymentStatus(r) ==
    /\ pay[r].pc = "paid"
    /\ LET pk == pay[r].debt_id
           refreshed == update_status(debts, pk, pay[r].fresh)
           debt == [pay[r].debt EXCEPT !.paid_amount = @ + pay[r].amount]
       IN  debts' = IF pay[r].view = "debt_payment"
                    THEN update_status(refreshed, pk, debt)
                    ELSE refreshed
    /\ pay' = [pay EXCEPT ![r] = [NoPay EXCEPT !.pc = "done", !.result = "ok"]]
    /\ UNCHANGED <<products, cart, last, session, req, transactions, productTransactions,
                   clock, debtPayments, today, receiving, stockAdjustments, adjust>>

\* The date changes.
NextDay ==
    /\ today < MaxDay
    /\ today' = today + 1
    /\ UNCHANGED <<products, cart, last, session, req, transactions, productTransactions,
                   clock, debts, debtPayments, pay, receiving, stockAdjustments, adjust>>

\* ------------------------------------------------------- receiving stock
\* How many inventoryAdd requests a behaviour holds, and the quantities the
\* form is sent with.
MaxReceived == 1
ReceivedQtys == {1}

\* The inventoryAdd request: pc is "idle" or "loaded" (the Product is read,
\* obj holds it); n_qty is the quantity of the form, count how many requests
\* have been sent and received what the finished ones added to A.
NoReceiving == [pc |-> "idle", barcode |-> "", obj |-> [qty |-> 0], n_qty |-> 0,
                count |-> 0, received |-> 0]

\* inventoryAdd up to the save: Product.objects.get(barcode=...) reads the
\* row, outside any transaction and without a lock.
InventoryAddGet(b, n) ==
    /\ receiving.pc = "idle"
    /\ receiving.count < MaxReceived
    /\ receiving' = [receiving EXCEPT !.pc = "loaded", !.barcode = b,
                                      !.obj = products[b], !.n_qty = n,
                                      !.count = @ + 1]
    /\ UNCHANGED <<products, cart, last, session, req, transactions, productTransactions,
                   clock, debts, debtPayments, pay, today, stockAdjustments, adjust>>

\* obj.qty = obj.qty + n_qty; obj.save(): Product.save runs clean, which
\* raises a negative qty to 0, and writes every field of the instance over
\* the stored row.
SaveProduct(obj, b, n) ==
    [products EXCEPT ![b] = [obj EXCEPT !.qty = IF @ + n < 0 THEN 0 ELSE @ + n]]

\* The rest of inventoryAdd: the save and the InventoryHistory row.
InventoryAddSave ==
    /\ receiving.pc = "loaded"
    /\ products' = SaveProduct(receiving.obj, receiving.barcode, receiving.n_qty)
    /\ receiving' = [receiving EXCEPT !.pc = "idle", !.received = @ + receiving.n_qty]
    /\ UNCHANGED <<cart, last, session, req, transactions, productTransactions,
                   clock, debts, debtPayments, pay, today, stockAdjustments, adjust>>

\* ------------------------------------------------------- writing stock off
\* How many stock_adjustment requests a behaviour holds.
MaxAdjustments == 2
AdjustRequests == 1..MaxAdjustments

\* A stock_adjustment request (action "adjust"): pc is "idle", "valid" (the
\* view has read the Product and the form has accepted the quantity against
\* it) or "done"; product is the row the view read, result the outcome.
NoAdjust == [pc |-> "idle", barcode |-> "", quantity |-> 0, product |-> [qty |-> 0],
             result |-> ""]

\* stock_adjustment up to the save: get_object_or_404 reads the Product and
\* StockAdjustmentForm.clean_quantity refuses a quantity <= 0 or above the
\* qty of that instance.
StockAdjustmentPost(r, b, quantity) ==
    /\ adjust[r].pc = "idle"
    /\ \A q \in AdjustRequests : q < r => adjust[q].pc # "idle"
    /\ adjust' = [adjust EXCEPT ![r] =
          [NoAdjust EXCEPT !.barcode = b, !.quantity = quantity, !.product = products[b],
                           !.pc = IF quantity <= 0 \/ quantity > products[b].qty
                                  THEN "done" ELSE "valid",
                           !.result = IF quantity <= 0 \/ quantity > products[b].qty
                                      THEN "invalid" ELSE ""]]
    /\ UNCHANGED <<products, cart, last, session, req, transactions, productTransactions,
                   clock, debts, debtPayments, pay, today, receiving, stockAdjustments>>

\* The quantity available taken from the instance the view read.
AvailableAsRead(r) == adjust[r].product.qty

\* available of StockAdjustment.save: the qty of the row read again, with
\* select_for_update, inside the transaction of the save.
Available(r) == products[adjust[r].barcode].qty

\* StockAdjustment.save on create, one database transaction: the quantity is
\* checked against the locked row; an accepted one is taken off with an F()
\* update and the StockAdjustment row is inserted; a refused one raises
\* ValidationError, which rolls back and the view reports.
StockAdjustmentSave(r) ==
    /\ adjust[r].pc = "valid"
    /\ LET b == adjust[r].barcode
           quantity == adjust[r].quantity
       IN  IF quantity <= 0 \/ quantity > Available(r)
           THEN /\ adjust' = [adjust EXCEPT ![r].pc = "done", ![r].result = "error"]
                /\ UNCHANGED <<products, stockAdjustments>>
           ELSE /\ products' = [products EXCEPT ![b].qty = @ - quantity]
                /\ stockAdjustments' = Append(stockAdjustments,
                                              [product |-> b, quantity |-> quantity])
                /\ adjust' = [adjust EXCEPT ![r].pc = "done", ![r].result = "ok"]
    /\ UNCHANGED <<cart, last, session, req, transactions, productTransactions,
                   clock, debts, debtPayments, pay, today, receiving>>

\* The write of StockAdjustment.save refused by the database (SQLite, which
\* has no row locks, answers "database is locked" to the second of two
\* transactions that read before either wrote): the transaction rolls back
\* and the view reports the failure. The quantity check has passed by then.
StockAdjustmentSaveFails(r) ==
    /\ adjust[r].pc = "valid"
    /\ 0 < adjust[r].quantity /\ adjust[r].quantity <= Available(r)
    /\ adjust' = [adjust EXCEPT ![r].pc = "done", ![r].result = "failed"]
    /\ UNCHANGED <<products, cart, last, session, req, transactions, productTransactions,
                   clock, debts, debtPayments, pay, today, receiving, stockAdjustments>>

\* No debt has been opened, no payment request sent and no stock received.
NoDebts ==
    /\ debts = <<>>
    /\ debtPayments = <<>>
    /\ pay = [r \in PayRequests |-> NoPay]
    /\ today = 0
    /\ receiving = NoReceiving
    /\ stockAdjustments = <<>>
    /\ adjust = [r \in AdjustRequests |-> NoAdjust]

\* The cart of one session over a fixed catalog: A is rung up by barcode, B
\* is the department items are keyed into by amount.
InitCart ==
    /\ products \in Catalogs
    /\ cart = [s \in Sessions |-> EmptyCart]
    /\ last = NoCall
    /\ session = [s \in Sessions |-> NoSession]
    /\ req = [r \in Requests |-> NoRequest]
    /\ transactions = <<>>
    /\ productTransactions = {}
    /\ clock = 0
    /\ NoDebts

NextCart ==
    \/ CartAdd("s1", {"A"}, 1..MaxQty, {NoPrice} \cup OverridePrices)
    \/ ManualAmount("s1", {"B"})
    \/ ItemDecrement("s1", {"A"})
    \/ CartUpdateQuantity("s1", {"A"})
    \/ ItemClear("s1", {"A"})
    \/ ReturnsTransaction("s1")
    \/ CartClear("s1")

SpecCart == InitCart /\ [][NextCart]_vars

\* The sale: two cashiers each ring up the whole shelf of A and end their
\* transactions by cash. No call record is kept.
SaleQtys == {MaxStock}
FullShelf == CHOOSE c \in Catalogs : c["A"].qty = MaxStock

InitSale ==
    /\ products = FullShelf
    /\ cart = [s \in Sessions |-> EmptyCart]
    /\ last = NoRecord
    /\ session = [s \in Sessions |-> NoSession]
    /\ req = [r \in Requests |-> NoRequest]
    /\ transactions = <<>>
    /\ productTransactions = {}
    /\ clock = 0
    /\ NoDebts

NextSale ==
    \/ \E s \in Sessions : CartAdd(s, {"A"}, SaleQtys, {NoPrice})
    \/ \E r \in Requests, s \in Sessions :
          \E tendered \in Tendered(sum_cart_field(cart[s], "line_total")) :
             EndTransaction(r, s, "cash", "", tendered)
    \/ \E r \in Requests : AddTransaction(r)
    \/ \E r \in Requests : EndTransactionRespond(r)

SpecSale == InitSale /\ [][NextSale]_vars

\* The repeated request: one cashier rings up the last unit of A, may
\* suspend and recall the cart, and sends endTransaction requests, by exact
\* cash or by card, while the clock runs.
LastUnit == [FullShelf EXCEPT !["A"].qty = 1]

InitRetry ==
    /\ products = LastUnit
    /\ cart = [s \in Sessions |-> EmptyCart]
    /\ last = NoRecord
    /\ session = [s \in Sessions |-> NoSession]
    /\ req = [r \in Requests |-> NoRequest]
    /\ transactions = <<>>
    /\ productTransactions = {}
    /\ clock = 0
    /\ NoDebts

NextRetry ==
    \/ CartAdd("s1", {"A"}, {1}, {NoPrice})
    \/ SuspendTransaction("s1")
    \/ RecallTransaction("s1")
    \/ \E r \in Requests :
          \/ \E value \in CardValues : EndTransaction(r, "s1", "card", value, 0)
          \/ EndTransaction(r, "s1", "cash", "", sum_cart_field(cart["s1"], "line_total"))
    \/ \E r \in Requests : AddTransaction(r)
    \/ \E r \in Requests : EndTransactionRespond(r)
    \/ Tick

SpecRetry == InitRetry /\ [][NextRetry]_vars

\* The credit sale: one cashier changes the cart of A by add, decrement,
\* set_quantity and returns and ends the transaction on credit, with or
\* without an initial payment, before or after the due date.
InitialPaid == {0, 25000, 50000}
InitDebt ==
    /\ products = FullShelf
    /\ cart = [s \in Sessions |-> EmptyCart]
    /\ last = NoRecord
    /\ session = [s \in Sessions |-> NoSession]
    /\ req = [r \in Requests |-> NoRequest]
    /\ transactions = <<>>
    /\ productTransactions = {}
    /\ clock = 0
    /\ NoDebts

NextDebt ==
    \/ CartAdd("s1", {"A"}, {1}, {NoPrice})
    \/ ItemDecrement("s1", {"A"})
    \/ CartUpdateQuantity("s1", {"A"})
    \/ ReturnsTransaction("s1")
    \/ \E paid_amount \in InitialPaid, due_date \in DueDates :
          EndDebtTransaction(1, "s1", paid_amount, due_date)
    \/ AddDebtTransaction(1)
    \/ EndDebtTransactionRespond(1)
    \/ NextDay

SpecDebt == InitDebt /\ [][NextDebt]_vars

\* The opening of debts: one cashier rings up the last unit of A and ends the
\* transaction on credit or by exact cash, with requests that may overlap;
\* headers are saved again.
InitOpen ==
    /\ products = LastUnit
    /\ cart = [s \in Sessions |-> EmptyCart]
    /\ last = NoRecord
    /\ session = [s \in Sessions |-> NoSession]
    /\ req = [r \in Requests |-> NoRequest]
    /\ transactions = <<>>
    /\ productTransactions = {}
    /\ clock = 0
    /\ NoDebts

NextOpen ==
    \/ CartAdd("s1", {"A"}, {1}, {NoPrice})
    \/ \E r \in Requests, paid_amount \in InitialPaid :
          EndDebtTransaction(r, "s1", paid_amount, NoDueDate)
    \/ \E r \in Requests : AddDebtTransaction(r)
    \/ \E r \in Requests : EndDebtTransactionRespond(r)
    \/ \E r \in Requests :
          EndTransaction(r, "s1", "cash", "", sum_cart_field(cart["s1"], "line_total"))
    \/ \E r \in Requests : AddTransaction(r)
    \/ \E r \in Requests : EndTransactionRespond(r)
    \/ \E i \in 1..Len(transactions) : TransactionResave(i)

SpecOpen == InitOpen /\ [][NextOpen]_vars

\* The payments: one cashier sells the last unit of A on credit, and payment
\* requests for the debt arrive through pay_debt and debt_payment, may
\* overlap, and may come after the due date.
InitPay ==
    /\ products = LastUnit
    /\ cart = [s \in Sessions |-> EmptyCart]
    /\ last = NoRecord
    /\ session = [s \in Sessions |-> NoSession]
    /\ req = [r \in Requests |-> NoRequest]
    /\ transactions = <<>>
    /\ productTransactions = {}
    /\ clock = 0
    /\ NoDebts

NextPay ==
    \/ CartAdd("s1", {"A"}, {1}, {NoPrice})
    \/ \E paid_amount \in InitialPaid \ {50000}, due_date \in DueDates :
          EndDebtTransaction(1, "s1", paid_amount, due_date)
    \/ AddDebtTransaction(1)
    \/ EndDebtTransactionRespond(1)
    \/ \E r \in PayRequests, debt_id \in 1..Len(debts), amount \in PayAmounts :
          PayDebt(r, debt_id, amount)
    \/ \E r \in PayRequests, debt_id \in 1..Len(debts), amount \in PayAmounts :
          DebtPaymentPost(r, debt_id, amount)
    \/ \E r \in PayRequests : DebtPaymentSave(r)
    \/ \E r \in PayRequests : DebtPaymentStatus(r)
    \/ NextDay

SpecPay == InitPay /\ [][NextPay]_vars

\* The percentages the admin gives the tax category.
TaxPercentages == {10, 20}

\* The admin saves the Tax row with another percentage: every product of the
\* category is taxed at it from then on.
TaxAdminSave(pct) ==
    /\ products' = [b \in Barcodes |->
          IF products[b].tax_category # NoCategory
          THEN [products[b] EXCEPT !.tax_category = Category(pct)]
          ELSE products[b]]
    /\ UNCHANGED <<cart, last, session, req, transactions, productTransactions, clock>>
    /\ UNCHANGED debtVars

\* The catalog changes under the cart: one cashier rings up A and keys
\* amounts into department B, the admin changes the percentage of B's tax
\* category, and the cashier ends the transaction by exact cash.
\* The product change list of the admin: is_vat_applicable is one of the
\* columns edited in place and saved with the list.
ProductAdminSave(b, flag) ==
    /\ products[b].is_vat_applicable # flag
    /\ products' = [products EXCEPT ![b].is_vat_applicable = flag]
    /\ UNCHANGED <<cart, last, session, req, transactions, productTransactions, clock>>
    /\ UNCHANGED debtVars

InitCatalog ==
    /\ products = FullShelf
    /\ cart = [s \in Sessions |-> EmptyCart]
    /\ last = NoRecord
    /\ session = [s \in Sessions |-> NoSession]
    /\ req = [r \in Requests |-> NoRequest]
    /\ transactions = <<>>
    /\ productTransactions = {}
    /\ clock = 0
    /\ NoDebts

NextCatalog ==
    \/ CartAdd("s1", {"A"}, {1}, {NoPrice})
    \/ ManualAmount("s1", {"B"})
    \/ \E pct \in TaxPercentages : TaxAdminSave(pct)
    \/ \E b \in Barcodes, flag \in BOOLEAN : ProductAdminSave(b, flag)
    \/ EndTransaction(1, "s1", "cash", "", sum_cart_field(cart["s1"], "line_total"))
    \/ AddTransaction(1)
    \/ EndTransactionRespond(1)

SpecCatalog == InitCatalog /\ [][NextCatalog]_vars

\* The till: one cashier changes the cart of A by add, decrement,
\* set_quantity and returns and ends the transaction by cash, exact or one
\* cent short, or on credit with nothing paid, and goes on using the cart.
InitTill ==
    /\ products = FullShelf
    /\ cart = [s \in Sessions |-> EmptyCart]
    /\ last = NoRecord
    /\ session = [s \in Sessions |-> NoSession]
    /\ req = [r \in Requests |-> NoRequest]
    /\ transactions = <<>>
    /\ productTransactions = {}
    /\ clock = 0
    /\ NoDebts

NextTill ==
    \/ CartAdd("s1", {"A"}, {1}, {NoPrice})
    \/ ItemDecrement("s1", {"A"})
    \/ CartUpdateQuantity("s1", {"A"})
    \/ ReturnsTransaction("s1")
    \/ \E tendered \in Tendered(sum_cart_field(cart["s1"], "line_total")) :
          EndTransaction(1, "s1", "cash", "", tendered)
    \/ AddTransaction(1)
    \/ EndTransactionRespond(1)
    \/ EndDebtTransaction(1, "s1", 0, NoDueDate)
    \/ AddDebtTransaction(1)
    \/ EndDebtTransactionRespond(1)

SpecTill == InitTill /\ [][NextTill]_vars

\* The Cart methods called with any integer quantity: add, decrement,
\* set_quantity and remove on the carts of two sessions, never returns.
CallQtys == (0 - MaxQty)..MaxQty
InitLines ==
    /\ products = FullShelf
    /\ cart = [s \in Sessions |-> EmptyCart]
    /\ last = NoRecord
    /\ session = [s \in Sessions |-> NoSession]
    /\ req = [r \in Requests |-> NoRequest]
    /\ transactions = <<>>
    /\ productTransactions = {}
    /\ clock = 0
    /\ NoDebts

NextLines ==
    \/ \E s \in Sessions : CartAddCall(s, Barcodes, CallQtys)
    \/ \E s \in Sessions : ItemDecrement(s, Barcodes)
    \/ \E s \in Sessions : CartUpdateQuantity(s, Barcodes)
    \/ \E s \in Sessions : ItemClear(s, Barcodes)

SpecLines == InitLines /\ [][NextLines]_vars

\* Two sales in a row: one cashier keys an amount into A or B, ends the
\* transaction by cash or on credit, keys the next customer's amount in and
\* ends that transaction on credit, at once or a tick later.
InitCredit ==
    /\ products = FullShelf
    /\ cart = [s \in Sessions |-> EmptyCart]
    /\ last = NoRecord
    /\ session = [s \in Sessions |-> NoSession]
    /\ req = [r \in Requests |-> NoRequest]
    /\ transactions = <<>>
    /\ productTransactions = {}
    /\ clock = 0
    /\ NoDebts

NextCredit ==
    \/ ManualAmount("s1", Barcodes)
    \/ EndTransaction(1, "s1", "cash", "", sum_cart_field(cart["s1"], "line_total"))
    \/ AddTransaction(1)
    \/ EndTransactionRespond(1)
    \/ \E r \in {1, 2} : EndDebtTransaction(r, "s1", 0, NoDueDate)
    \/ \E r \in {1, 2} : AddDebtTransaction(r)
    \/ \E r \in {1, 2} : EndDebtTransactionRespond(r)
    \/ Tick

SpecCredit == InitCredit /\ [][NextCredit]_vars

\* Headers saved again: one cashier rings B up and sells it on credit, with
\* or without an initial payment, the admin switches VAT for B on and off and
\* changes the percentage of its tax category, and stored headers are saved
\* again.
ResavePaid == {0, 500}
InitResave ==
    /\ products = FullShelf
    /\ cart = [s \in Sessions |-> EmptyCart]
    /\ last = NoRecord
    /\ session = [s \in Sessions |-> NoSession]
    /\ req = [r \in Requests |-> NoRequest]
    /\ transactions = <<>>
    /\ productTransactions = {}
    /\ clock = 0
    /\ NoDebts

NextResave ==
    \/ CartAdd("s1", {"B"}, {1}, {NoPrice})
    \/ \E pct \in TaxPercentages : TaxAdminSave(pct)
    \/ \E flag \in BOOLEAN : ProductAdminSave("B", flag)
    \/ \E r \in {1, 2}, paid_amount \in ResavePaid :
          EndDebtTransaction(r, "s1", paid_amount, NoDueDate)
    \/ \E r \in {1, 2} : AddDebtTransaction(r)
    \/ \E r \in {1, 2} : EndDebtTransactionRespond(r)
    \/ \E i \in 1..Len(transactions) : TransactionResave(i)

SpecResave == InitResave /\ [][NextResave]_vars

\* Headers saved with a paid amount: sale headers are created from the cart
\* of A with a payment type and a paid_amount, and saved again.
InitCreate ==
    /\ products = FullShelf
    /\ cart = [s \in Sessions |-> EmptyCart]
    /\ last = NoRecord
    /\ session = [s \in Sessions |-> NoSession]
    /\ req = [r \in Requests |-> NoRequest]
    /\ transactions = <<>>
    /\ productTransactions = {}
    /\ clock = 0
    /\ NoDebts

NextCreate ==
    \/ CartAdd("s1", {"A"}, {1}, {NoPrice})
    \/ ItemDecrement("s1", {"A"})
    \/ \E payment_type \in {"DEBT", "CASH"}, paid_amount \in InitialPaid :
          TransactionCreate("s1", payment_type, paid_amount)
    \/ \E i \in 1..Len(transactions) : TransactionResave(i)
    \/ NextDay

SpecCreate == InitCreate /\ [][NextCreate]_vars

\* Suspending and recalling: one cashier rings A and B up, suspends the
\* cart, clears it and recalls a suspended cart, in any order of requests.
InitSuspend ==
    /\ products = FullShelf
    /\ cart = [s \in Sessions |-> EmptyCart]
    /\ last = NoRecord
    /\ session = [s \in Sessions |-> NoSession]
    /\ req = [r \in Requests |-> NoRequest]
    /\ transactions = <<>>
    /\ productTransactions = {}
    /\ clock = 0
    /\ NoDebts

NextSuspend ==
    \/ CartAdd("s1", Barcodes, {1}, {NoPrice})
    \/ SuspendTransaction("s1")
    \/ CartClear("s1")
    \/ RecallTransaction("s1")

SpecSuspend == InitSuspend /\ [][NextSuspend]_vars

\* Writing stock off while the till sells: two clerks record damaged units of
\* A at the same time, a cashier rings A up and ends the sale by cash.
InitAdjust ==
    /\ products = FullShelf
    /\ cart = [s \in Sessions |-> EmptyCart]
    /\ last = NoRecord
    /\ session = [s \in Sessions |-> NoSession]
    /\ req = [r \in Requests |-> NoRequest]
    /\ transactions = <<>>
    /\ productTransactions = {}
    /\ clock = 0
    /\ NoDebts

NextAdjust ==
    \/ CartAdd("s1", {"A"}, {1}, {NoPrice})
    \/ EndTransaction(1, "s1", "cash", "", sum_cart_field(cart["s1"], "line_total"))
    \/ AddTransaction(1)
    \/ EndTransactionRespond(1)
    \/ \E r \in AdjustRequests, quantity \in 1..(MaxStock + 1) :
          StockAdjustmentPost(r, "A", quantity)
    \/ \E r \in AdjustRequests : StockAdjustmentSave(r)
    \/ \E r \in AdjustRequests : StockAdjustmentSaveFails(r)

SpecAdjust == InitAdjust /\ [][NextAdjust]_vars

\* The tax settings under the cart: the admin zero-rates the tax category or
\* puts it at 10%, and switches VAT on and off for a product, while a cashier
\* rings A and B up and keys amounts into B.
ZeroRatedPercentages == {0, 10}
InitTax ==
    /\ products = FullShelf
    /\ cart = [s \in Sessions |-> EmptyCart]
    /\ last = NoRecord
    /\ session = [s \in Sessions |-> NoSession]
    /\ req = [r \in Requests |-> NoRequest]
    /\ transactions = <<>>
    /\ productTransactions = {}
    /\ clock = 0
    /\ NoDebts

NextTax ==
    \/ CartAdd("s1", Barcodes, {1}, {NoPrice})
    \/ ManualAmount("s1", {"B"})
    \/ ItemClear("s1", Barcodes)
    \/ \E pct \in ZeroRatedPercentages : TaxAdminSave(pct)
    \/ \E b \in Barcodes, flag \in BOOLEAN : ProductAdminSave(b, flag)

SpecTax == InitTax /\ [][NextTax]_vars

\* Quantities as text: two cashiers add A and B and set their quantities with
\* quantities that are numbers or not. No call record is kept.
InitText ==
    /\ products = FullShelf
    /\ cart = [s \in Sessions |-> EmptyCart]
    /\ last = NoRecord
    /\ session = [s \in Sessions |-> NoSession]
    /\ req = [r \in Requests |-> NoRequest]
    /\ transactions = <<>>
    /\ productTransactions = {}
    /\ clock = 0
    /\ NoDebts

NextText ==
    \/ \E s \in Sessions : CartAddText(s, Barcodes, QtyTexts)
    \/ \E s \in Sessions : CartSetQuantityText(s, Barcodes, QtyTexts)

SpecText == InitText /\ [][NextText]_vars

\* Receiving stock while the till sells: the cashier rings A up and ends the
\* sale by cash while the back office books a delivery of A.
InitReceive ==
    /\ products = FullShelf
    /\ cart = [s \in Sessions |-> EmptyCart]
    /\ last = NoRecord
    /\ session = [s \in Sessions |-> NoSession]
    /\ req = [r \in Requests |-> NoRequest]
    /\ transactions = <<>>
    /\ productTransactions = {}
    /\ clock = 0
    /\ NoDebts

NextReceive ==
    \/ CartAdd("s1", {"A"}, {1}, {NoPrice})
    \/ ItemDecrement("s1", {"A"})
    \/ EndTransaction(1, "s1", "cash", "", sum_cart_field(cart["s1"], "line_total"))
    \/ AddTransaction(1)
    \/ EndTransactionRespond(1)
    \/ \E n \in ReceivedQtys : InventoryAddGet("A", n)
    \/ InventoryAddSave

SpecReceive == InitReceive /\ [][NextReceive]_vars

\* A failure after which the pending marker stays in the session.
AddTransactionFailsKeepingMarker(r) ==
    /\ req[r].pc = "marked"
    /\ req' = [req EXCEPT ![r].pc = "respond", ![r].to = "register"]
    /\ UNCHANGED <<products, cart, last, session, transactions, productTransactions, clock>>
    /\ UNCHANGED debtVars

\* addTransaction failing: an exception inside its database transaction (the
\* database refusing a write) rolls the transaction back and addTransaction
\* returns None; endTransaction then drops the pending marker from its copy
\* of the session and redirects to the register.
AddTransactionFails(r) ==
    /\ req[r].pc = "marked"
    /\ req' = [req EXCEPT ![r].pc = "respond", ![r].to = "register",
                          ![r].sess.pending_tx_fingerprint = NoFingerprint]
    /\ UNCHANGED <<products, cart, last, session, transactions, productTransactions, clock>>
    /\ UNCHANGED debtVars

\* The attempt and its retry: the cashier rings A up and ends the sale by
\* cash, tendering enough or a cent too little; the database may refuse the
\* write of the first request. A request that has started runs to its
\* response (the server gives every request a thread), which is what the
\* fairness conditions of LiveAttempt say.
FailingRequests == {1}
InitAttempt ==
    /\ products = FullShelf
    /\ cart = [s \in Sessions |-> EmptyCart]
    /\ last = NoRecord
    /\ session = [s \in Sessions |-> NoSession]
    /\ req = [r \in Requests |-> NoRequest]
    /\ transactions = <<>>
    /\ productTransactions = {}
    /\ clock = 0
    /\ NoDebts

NextAttempt ==
    \/ CartAdd("s1", {"A"}, {1}, {NoPrice})
    \/ \E r \in Requests :
          \E tendered \in Tendered(sum_cart_field(cart["s1"], "line_total")) :
             EndTransaction(r, "s1", "cash", "", tendered)
    \/ \E r \in Requests : AddTransaction(r)
    \/ \E r \in FailingRequests : AddTransactionFails(r)
    \/ \E r \in Requests : EndTransactionRespond(r)

SpecAttempt == InitAttempt /\ [][NextAttempt]_vars

LiveAttempt ==
    /\ SpecAttempt
    /\ \A r \in Requests : WF_vars(AddTransaction(r)) /\ WF_vars(EndTransactionRespond(r))

\* ------------------------------------------------ properties of the sale
\* The sales on record come from different sessions.
FromDifferentSessions ==
    \A i, j \in 1..Len(transactions) :
        i # j => transactions[i].user # transactions[j].user

\* C1: sale commits from different sessions never make a product's on-hand
\* quantity negative.
C1_StockNeverNegative ==
    FromDifferentSessions => \A b \in Barcodes : products[b].qty >= 0

\* The step is the addTransaction call of request r.
Commits(r) == req[r].pc = "marked" /\ req'[r].pc # "marked"

\* A line of the cart request r commits asks for more than is on hand.
ExceedsOnHand(r) ==
    \E k \in DOMAIN req[r].cart :
        HasProduct(k) /\ req[r].cart[k].quantity > products[k.base].qty

\* C2: a commit whose cart has a line with more units than are on hand fails:
\* no sale, no sale line and no change of stock are persisted.
C2_CommitAllOrNothing ==
    [][ \A r \in Requests :
          (Commits(r) /\ ExceedsOnHand(r))
          => /\ transactions' = transactions
             /\ productTransactions' = productTransactions
             /\ products' = products
             /\ req'[r].result = 0
      ]_vars

\* C3: of two concurrent commit requests of one session with the same
\* fingerprint only one creates a sale: while the one holds the sale it has
\* created, the commit of the other creates none and ends with the same id.
C3_ConcurrentTwinsMakeOneSale ==
    [][ \A r, q \in Requests :
          ( /\ r # q /\ Commits(r)
            /\ req[q].pc = "saved"
            /\ req[q].s = req[r].s
            /\ req[q].fingerprint = req[r].fingerprint )
          => /\ transactions' = transactions
             /\ productTransactions' = productTransactions
             /\ req'[r].result = req[q].result
      ]_vars

\* The step is the arrival of the endTransaction request r.
Asks(r) == req[r].pc = "idle" /\ req'[r].pc # "idle"

\* C4: an endTransaction whose fingerprint is that of the session's last
\* committed sale, within the dedupe window, is answered with that sale's id
\* and creates no sale, no sale line and no stock movement.
C4_RepeatReturnsLastSale ==
    [][ \A r \in Requests :
          LET s == req'[r].s
          IN  ( /\ Asks(r)
                /\ DOMAIN cart[s] # {}
                /\ session[s].last_tx_id # 0
                /\ session[s].last_tx_fingerprint = req'[r].fingerprint
                /\ clock - session[s].last_tx_ts <= DedupeWindow )
              => /\ req'[r].pc = "done"
                 /\ req'[r].to = "receipt"
                 /\ req'[r].id = session[s].last_tx_id
                 /\ req'[r].result = 0
                 /\ UNCHANGED <<transactions, productTransactions, products>>
      ]_vars

\* A request has been answered with the id of the session's last sale, whose
\* fingerprint it carries, without a sale of its own.
C4_Witness ==
    \E r \in Requests :
        /\ req[r].pc = "done" /\ req[r].to = "receipt" /\ req[r].result = 0
        /\ req[r].cart # EmptyCart
        /\ req[r].id = session[req[r].s].last_tx_id
        /\ req[r].fingerprint = session[req[r].s].last_tx_fingerprint
        /\ req[r].now - session[req[r].s].last_tx_ts <= DedupeWindow
        /\ Len(transactions) = 1
        /\ transactions[1].transaction_id = req[r].id

\* ------------------------------------------------ properties of the cart
\* The line a single Cart.add of n units of the key's product object, at the
\* unit price vp asks for, leaves on an empty cart.
SingleAdd(key, vp, n) ==
    Add(EmptyCart, key, ProductObj(key), n, vp).cart[key]

\* C5: after any Cart mutation every line's line_total equals the price stored
\* on the line times its quantity plus its deposit total; VAT is never added
\* on top of the line total.
C5_LineTotalIsPriceTimesQuantity ==
    \A s \in Sessions : \A k \in DOMAIN cart[s] :
        cart[s][k].line_total =
            cart[s][k].price * cart[s][k].quantity + cart[s][k].deposit_value

\* C6: an add of q units on an empty cart followed by a decrement of k units,
\* 0 < k < q, leaves the line a single add of q - k units leaves.
C6_AddThenDecrementIsSmallerAdd ==
    [][ \A s \in Sessions :
          ( /\ last.op = "add" /\ last.status = "ok" /\ last.chain = 1
            /\ last.session = s /\ last'.session = s
            /\ last'.op = "decrement" /\ last'.key = last.key
            /\ 0 < last'.qty /\ last'.qty < last.qty
            /\ last.key \in DOMAIN cart[s] )
          => /\ last.key \in DOMAIN cart'[s]
             /\ cart'[s][last.key] = SingleAdd(last.key, last.vp, last.qty - last'.qty)
      ]_vars

\* C7: two successive adds of q1 and q2 units of one item at an unchanged unit
\* price, within the on-hand stock, leave the line (every field of it) that a
\* single add of q1 + q2 units leaves.
C7_AddIsAdditive ==
    \A s \in Sessions :
        ( /\ last.session = s
          /\ last.op = "add" /\ last.status = "ok" /\ last.chain = 2 )
        => cart[s][last.key] = SingleAdd(last.key, last.vp, last.sum)

\* A second add has merged into the line a first add created.
C7_Witness ==
    /\ last.session = "s1"
    /\ last.op = "add" /\ last.status = "ok" /\ last.chain = 2
    /\ last.had /\ last.sum = last.current + last.qty /\ last.sum >= 2
    /\ last.key \in DOMAIN cart["s1"]
    /\ cart["s1"][last.key].quantity = last.sum

\* C8: set_quantity(item, n) called twice with the same n, 1 <= n <= on-hand,
\* leaves after the second call the line the first call left.
C8_SetQuantityIsIdempotent ==
    [][ \A s \in Sessions :
          ( /\ last.op = "set_quantity" /\ last.status = "ok"
            /\ last.session = s /\ last'.session = s
            /\ last'.op = "set_quantity" /\ last'.key = last.key
            /\ last'.qty = last.qty /\ last.qty >= 1
            /\ last.key \in DOMAIN cart[s] )
          => /\ last'.status = "ok"
             /\ last.key \in DOMAIN cart'[s]
             /\ cart'[s][last.key] = cart[s][last.key]
      ]_vars

\* set_quantity has been called a second time with the same quantity.
C8_Witness ==
    /\ last.session = "s1"
    /\ last.op = "set_quantity" /\ last.again /\ last.status = "ok"
    /\ last.qty >= 2
    /\ last.key \in DOMAIN cart["s1"]
    /\ cart["s1"][last.key].quantity = last.qty

\* What C9 and C10 read off a step that calls a Cart method on a key: the
\* quantity the key has in the cart before the call and the on-hand quantity
\* of the product object the call is given.
CurrentInCart(s, key) == IF key \in DOMAIN cart[s] THEN cart[s][key].quantity ELSE 0
OnHand(key) == ProductObj(key).qty
AddStep(s) == last'.op = "add" /\ last'.session = s
RefusedForStock(s) ==
    /\ last'.status = "error" /\ last'.kind = "insufficient_stock"
    /\ cart'[s] = cart[s]

\* C9: Cart.add of q units with current_in_cart + q > on_hand returns an
\* insufficient-stock error and leaves the cart unchanged; with q >= 1 and
\* current_in_cart + q <= on_hand it succeeds and the line's quantity becomes
\* current_in_cart + q.
C9_AddChecksStock ==
    [][ \A s \in Sessions :
          AddStep(s) =>
            LET key == last'.key
                q == last'.qty
                current == CurrentInCart(s, key)
            IN  IF current + q > OnHand(key)
                THEN RefusedForStock(s)
                ELSE q >= 1 =>
                       /\ last'.status = "ok"
                       /\ key \in DOMAIN cart'[s]
                       /\ cart'[s][key].quantity = current + q
      ]_vars

\* C9 as the code has it: a successful add leaves the quantity
\* current_in_cart + q when that is at least 1, and removes the line when it
\* is 0 or less (the line held the negated quantity of a return).
C9_AddChecksStockOrRemoves ==
    [][ \A s \in Sessions :
          AddStep(s) =>
            LET key == last'.key
                q == last'.qty
                current == CurrentInCart(s, key)
            IN  IF current + q > OnHand(key)
                THEN RefusedForStock(s)
                ELSE q >= 1 =>
                       /\ last'.status = "ok"
                       /\ IF current + q >= 1
                          THEN /\ key \in DOMAIN cart'[s]
                               /\ cart'[s][key].quantity = current + q
                          ELSE key \notin DOMAIN cart'[s]
      ]_vars

\* An add on top of the units already in the cart has been refused: the cart
\* would hold more than the whole on-hand stock.
C9_Witness ==
    /\ last.session = "s1"
    /\ last.op = "add" /\ last.status = "error" /\ last.kind = "insufficient_stock"
    /\ last.had /\ last.current >= 1 /\ last.qty >= 1
    /\ last.available = OnHand(last.key)
    /\ last.requested = last.current + last.qty
    /\ last.requested > last.available
    /\ cart["s1"][last.key].quantity = last.current

VatPct(p) == IF p.tax_category # NoCategory THEN CategoryPct(p.tax_category) ELSE 18

\* C11: an add of a VAT-applicable product with percentage pct > 0, at unit
\* price p (the override price, else the price stored on the line, else the
\* catalog price) and resulting quantity q, leaves on the line
\*   vat = p*q*pct/(100+pct) rounded half-up to two places, taken on the
\*         price alone,
\*   line_total = p*q + deposit_per_unit*q   (to two places), and
\*   profit = p*q - (cost*q + vat)           (to two places).
C11_AddComputesVatTotalAndProfit ==
    [][ \A s \in Sessions :
          ( /\ AddStep(s) /\ last'.status = "ok"
            /\ last'.key \in DOMAIN cart'[s]
            /\ ProductObj(last'.key).is_vat_applicable
            /\ VatPct(ProductObj(last'.key)) > 0 )
          => LET key == last'.key
                 prod == ProductObj(key)
                 pct == VatPct(prod)
                 p == IF last'.vp # NoPrice THEN PriceOf(last'.vp)
                      ELSE IF key \in DOMAIN cart[s] THEN 10 * cart[s][key].price
                      ELSE 10 * prod.sales_price
                 q == CurrentInCart(s, key) + last'.qty
                 vat == RoundHalfUp(p * q * pct, 10 * (100 + pct))
                 line == cart'[s][key]
             IN  /\ line.quantity = q
                 /\ line.tax_value = vat
                 /\ line.line_total = RoundHalfUp(p * q + 10 * DepositVal(prod) * q, 10)
                 /\ line.profit_value =
                        RoundHalfUp(p * q - 10 * (prod.cost_price * q + vat), 10)
      ]_vars

\* Three units of A at 500.00 and 18% are in the cart: line total 1500.00,
\* VAT 228.81.
C11_Witness ==
    /\ last.session = "s1" /\ last.op = "add" /\ last.status = "ok"
    /\ last.key = PlainKey("A") /\ last.vp = NoPrice
    /\ PlainKey("A") \in DOMAIN cart["s1"]
    /\ cart["s1"][PlainKey("A")].quantity = 3
    /\ cart["s1"][PlainKey("A")].line_total = 150000
    /\ cart["s1"][PlainKey("A")].tax_value = 22881
    /\ cart["s1"][PlainKey("A")].profit_value = 150000 - (3 * 30000 + 22881)

\* C12: returns() negates the quantity and every monetary aggregate (VAT,
\* deposit, profit, line total) of every cart line and leaves the unit price
\* as it is, positive.
C12_ReturnsNegatesEveryLine ==
    [][ \A s \in Sessions :
          (last'.op = "returns" /\ last'.session = s)
          => /\ DOMAIN cart'[s] = DOMAIN cart[s]
             /\ \A k \in DOMAIN cart[s] :
                   /\ cart'[s][k].quantity = - cart[s][k].quantity
                   /\ cart'[s][k].tax_value = - cart[s][k].tax_value
                   /\ cart'[s][k].deposit_value = - cart[s][k].deposit_value
                   /\ cart'[s][k].profit_value = - cart[s][k].profit_value
                   /\ cart'[s][k].line_total = - cart[s][k].line_total
                   /\ cart'[s][k].price = cart[s][k].price
                   /\ cart'[s][k].price >= 0
      ]_vars

\* ------------------------------------------------ properties of the debts
\* C13: after any sequence of payments against a debt, through pay_debt,
\* debt_payment and the initial payment of the commit, overlapping or not,
\* the debt's paid_amount is the sum of its DebtPayment rows.
C13_PaidAmountIsSumOfPayments ==
    \A pk \in 1..Len(debts) :
        debts[pk].paid_amount = SumPayments(debtPayments, pk)

\* A debt opened with an initial payment has received two more payments from
\* requests that overlap: both have inserted their payment and neither has
\* finished.
C13_Witness ==
    /\ Len(debtPayments) = 3
    /\ \E r, q \in PayRequests :
          /\ r # q
          /\ pay[r].pc = "paid" /\ pay[q].pc = "paid"
          /\ pay[r].view = "pay_debt" /\ pay[q].view = "debt_payment"
          /\ pay[r].debt_id = pay[q].debt_id

\* The step is the addTransaction call of the endDebtTransaction request r.
CommitsDebt(r) == req[r].pc = "debt" /\ req'[r].pc = "debtsaved"

\* C14: committing a credit sale of total T with initial payment p opens
\* exactly one Debt, with total_amount T and paid_amount min(p, T), whose
\* status, the due date not having passed, is PENDING if p = 0, PARTIAL if
\* 0 < p < T and PAID if p >= T.
C14_OpenedDebtHasTotalPaidAndStatus ==
    [][ \A r \in Requests :
          CommitsDebt(r)
          => LET T == req[r].total
                 p == req[r].paid_amount
                 id == req'[r].result
                 due == req[r].due_date
             IN  /\ Len(debts') = Len(debts) + 1
                 /\ Cardinality(DebtsOf(debts', id)) = 1
                 /\ \A pk \in DebtsOf(debts', id) :
                       /\ debts'[pk].total_amount = T
                       /\ debts'[pk].paid_amount = Min(p, T)
                       /\ ~(due # NoDueDate /\ due < today)
                          => debts'[pk].status =
                                IF p = 0 THEN "PENDING"
                                ELSE IF p < T THEN "PARTIAL" ELSE "PAID"
      ]_vars

\* The second half of C14, for the payments: a payment request that pays the
\* whole balance of the row it read, no other request having touched the row
\* meanwhile, ends with the debt PAID and its balance 0.
SettlingPaymentPaysTheDebt ==
    [][ \A r \in PayRequests :
          ( /\ pay[r].pc = "paid" /\ pay'[r].pc = "done"
            /\ pay[r].amount = balance(pay[r].debt)
            /\ pay[r].fresh = [pay[r].debt EXCEPT !.paid_amount = @ + pay[r].amount]
            /\ debts[pay[r].debt_id] = pay[r].fresh )
          => /\ debts'[pay[r].debt_id].status = "PAID"
             /\ balance(debts'[pay[r].debt_id]) = 0
      ]_vars

\* The step runs update_status for debt pk: the debt is opened, or a payment
\* request for it finishes.
Recomputes(pk) ==
    \/ pk > Len(debts)
    \/ \E r \in PayRequests :
          pay[r].pc = "paid" /\ pay'[r].pc = "done" /\ pay[r].debt_id = pk

\* C15: whenever the status of a debt is recomputed, a debt that is paid less
\* than its total and whose due date has passed is OVERDUE, whether the paid
\* amount is zero or positive.
C15_PastDueUnpaidIsOverdue ==
    [][ \A pk \in 1..Len(debts') :
          ( /\ Recomputes(pk)
            /\ debts'[pk].paid_amount < debts'[pk].total_amount
            /\ debts'[pk].due_date # NoDueDate
            /\ debts'[pk].due_date < today' )
          => debts'[pk].status = "OVERDUE"
      ]_vars

\* C16: PAID is terminal: no later payment or recomputation, in any
\* interleaving of pay_debt and debt_payment requests, moves a PAID debt to
\* another status.
C16_PaidIsTerminal ==
    [][ \A pk \in 1..Len(debts) :
          debts[pk].status = "PAID" => debts'[pk].status = "PAID"
      ]_vars

\* C17: the paid_amount of a debt never exceeds its total_amount: on every
\* payment path a payment that would push it above the total is rejected.
C17_PaidNeverExceedsTotal ==
    \A pk \in 1..Len(debts) : debts[pk].paid_amount <= debts[pk].total_amount

\* C18: a sale has at most one Debt, after any sequence or interleaving of
\* commits and header re-saves, and a sale that is not on credit has none.
C18_AtMostOneDebtPerSale ==
    \A i \in 1..Len(transactions) :
        /\ Cardinality(DebtsOf(debts, i)) <= 1
        /\ transactions[i].payment_type # "DEBT" => DebtsOf(debts, i) = {}

\* Two overlapping commits of the same cart, one on credit and one by cash,
\* have both made their sale: the credit sale has its Debt.
C18_Witness ==
    /\ Len(transactions) = 2
    /\ \E i, j \in 1..Len(transactions) :
          /\ transactions[i].payment_type = "DEBT"
          /\ transactions[i].debt_created
          /\ Cardinality(DebtsOf(debts, i)) = 1
          /\ transactions[j].payment_type = "CASH"

\* C19: for every credit sale, whatever cart add, decrement, set_quantity and
\* returns made, the Debt's total_amount is the total_sale persisted on its
\* sale.
C19_DebtTotalIsSaleTotal ==
    \A pk \in 1..Len(debts) :
        debts[pk].total_amount = transactions[debts[pk].transaction].total_sale

\* The productTransaction rows of sale id, and the sum of their gross lines.
RowsOf(id) == {row \in productTransactions : row.transaction = id}
RECURSIVE SumRows(_)
SumRows(rows) ==
    IF rows = {} THEN 0
    ELSE LET row == CHOOSE x \in rows : TRUE
         IN  row.sales_price * row.qty + SumRows(rows \ {row})

\* C20: every persisted sale header has total_sale = the sum of its gross
\* lines plus the deposits, and sub_total = total_sale - the VAT total.
C20_HeaderTotalsAgree ==
    \A i \in 1..Len(transactions) :
        /\ transactions[i].total_sale =
              SumRows(RowsOf(transactions[i].transaction_id))
              + transactions[i].deposit_total
        /\ transactions[i].sub_total =
              transactions[i].total_sale - transactions[i].tax_total

\* ------------------------------------------------ properties of the commit
\* The step is the addTransaction call of request r, by endTransaction or by
\* endDebtTransaction, and creates a sale.
CreatesSale(r) ==
    /\ req[r].pc \in {"marked", "debt"}
    /\ req'[r].pc \in {"saved", "debtsaved"}
    /\ Len(transactions') = Len(transactions) + 1

\* C21: the total_sale persisted on a sale is the cart total at the moment of
\* the commit, the sum of the lines' line_total that the tendered cash was
\* checked against, for every cart add, decrement, set_quantity and returns
\* make.
C21_SaleTotalIsCartTotal ==
    [][ \A r \in Requests :
          CreatesSale(r)
          => transactions'[Len(transactions')].total_sale
                = sum_cart_field(req[r].cart, "line_total")
      ]_vars

\* The VAT of the committed cart c at the catalog's percentages, line by line.
CatalogVat(key, line) ==
    ExtractVatFromGross(line.price * line.quantity, CategoryTaxPct(products'[key.base]))
RECURSIVE SumCatalogVat(_, _)
SumCatalogVat(c, keys) ==
    IF keys = {} THEN 0
    ELSE LET k == CHOOSE x \in keys : TRUE
         IN  CatalogVat(k, c[k]) + SumCatalogVat(c, keys \ {k})

\* The lines of cart c whose product has a tax category when it is committed.
Categorized(c) ==
    {k \in DOMAIN c : HasItem(k) /\ products[k.base].tax_category # NoCategory}

\* C22: the commit does not trust the tax cached in the cart: the VAT amount of
\* a committed line whose product has a tax category is derived from the
\* category's percentage at commit time, and so is the sale's VAT total when
\* every line has one.
C22_CommitTaxFromCatalog ==
    [][ \A r \in Requests :
          CreatesSale(r)
          => LET c == req[r].cart
                 id == Len(transactions')
             IN  /\ \A k \in Categorized(c) :
                       \E row \in productTransactions' :
                          /\ row.transaction = id /\ row.barcode = k
                          /\ row.tax_amount = CatalogVat(k, c[k])
                 /\ Categorized(c) = DOMAIN c
                    => transactions'[id].tax_total = SumCatalogVat(c, DOMAIN c)
      ]_vars


RECURSIVE SumRowTax(_)
SumRowTax(rows) ==
    IF rows = {} THEN 0
    ELSE LET row == CHOOSE x \in rows : TRUE
         IN  row.tax_amount + SumRowTax(rows \ {row})

C24_HeaderTaxIsSumOfRowTax ==
    \A i \in 1..Len(transactions) :
        transactions[i].tax_total = SumRowTax(RowsOf(i))


\* ------------------------------------------------- properties of the response
\* The response of a commit that stored a sale, and the response of an
\* endTransaction turned away for tendering less than the total.
RespondsSold(r) ==
    /\ req[r].pc \in {"saved", "debtsaved"}
    /\ req'[r].pc = "done"
RespondsShort(r) ==
    /\ req[r].pc = "respond"
    /\ req'[r].pc = "done"

\* C25: the response of a commit that stored a sale (endTransaction or
\* endDebtTransaction) leaves the session's cart empty; the response of an
\* endTransaction that stored none because the cash tendered was below the
\* total stores no sale and leaves the cart the request found.
C25_CartClearedOnlyAfterSale ==
    [][ \A r \in Requests :
          /\ RespondsSold(r) => cart'[req[r].s] = EmptyCart
          /\ RespondsShort(r)
               => /\ req[r].tendered < req[r].total
                  /\ req[r].result = 0
                  /\ transactions' = transactions
                  /\ cart'[req[r].s] = req[r].cart
                  /\ DOMAIN cart'[req[r].s] # {} ]_vars

\* A cash commit was turned away and its cart is still there.
C25_Witness ==
    /\ req[1].pc = "done"
    /\ req[1].to = "register"
    /\ req[1].tendered < req[1].total
    /\ cart[req[1].s] = req[1].cart
    /\ DOMAIN cart[req[1].s] # {}


\* Request q has been answered without a sale having been stored for it:
\* the cash tendered was below the total, or addTransaction failed.
NoSale(q) ==
    /\ req[q].pc = "done"
    /\ req[q].to = "register"
    /\ req[q].result = 0
    /\ DOMAIN req[q].cart # {}
    /\ req[q].fingerprint \notin {req[q].sess.last_tx_fingerprint,
                                   req[q].sess.pending_tx_fingerprint}

\* Request r is a retry of q: the same cart of the same session by the same
\* payment (the same fingerprint), no sale recorded in the session between
\* the two, the cash tendered covering the total, and the database working.
Retry(q, r) ==
    /\ NoSale(q)
    /\ r \notin FailingRequests \cup {q}
    /\ req[r].pc # "idle"
    /\ req[r].s = req[q].s
    /\ req[r].fingerprint = req[q].fingerprint
    /\ req[r].sess.last_tx_id = req[q].sess.last_tx_id
    /\ req[r].tendered >= req[r].total

\* The sale of request r is stored.
Sold(r) ==
    /\ req[r].result \in 1..Len(transactions)
    /\ transactions[req[r].result].total_sale = req[r].total

\* C26: the response of an endTransaction that stored no sale (cash below
\* the total, or addTransaction failing) leaves no pending marker in the
\* session, and a retry of the same cart with sufficient cash leads to its
\* sale being stored: it is not turned away as a duplicate.
C26_RetryAfterNoSaleSells ==
    /\ [][ \A q \in Requests : RespondsShort(q)
              => session'[req[q].s].pending_tx_fingerprint = NoFingerprint ]_vars
    /\ \A q, r \in Requests : Retry(q, r) ~> Sold(r)

\* The first request was answered without a sale because addTransaction
\* failed, and the retry has sold the cart.
C26_Witness ==
    /\ NoSale(1)
    /\ req[1].tendered >= req[1].total
    /\ Retry(1, 2)
    /\ Sold(2)
    /\ session["s1"].pending_tx_fingerprint = NoFingerprint


\* C27: an endTransaction whose fingerprint is that of the session's last
\* committed sale and which arrives more than the dedupe window after it is
\* not answered with that sale: it goes on to addTransaction and a sale of
\* its own.
C27_ExpiredRecordSellsAgain ==
    [][ \A r \in Requests :
          LET s == req'[r].s
          IN  ( /\ Asks(r)
                /\ DOMAIN cart[s] # {}
                /\ session[s].last_tx_id # 0
                /\ session[s].last_tx_fingerprint = req'[r].fingerprint
                /\ clock - session[s].last_tx_ts > DedupeWindow )
              => /\ req'[r].pc = "marked"
                 /\ req'[r].id # session[s].last_tx_id ]_vars


\* ---------------------------------------------------- properties of stock
\* The units of barcode b the stored rows have sold.
RECURSIVE SumSold(_, _)
SumSold(rows, b) ==
    IF rows = {} THEN 0
    ELSE LET row == CHOOSE x \in rows : TRUE
         IN  (IF row.barcode = PlainKey(b) THEN row.qty ELSE 0) + SumSold(rows \ {row}, b)

\* C28: inventoryAdd running together with a sale of the same product loses
\* neither update: once the inventoryAdd request is answered, the on-hand
\* quantity is the initial one plus what was received minus what was sold.
C28_ReceiveAndSaleBothCount ==
    receiving.pc = "idle"
        => products["A"].qty
              = FullShelf["A"].qty + receiving.received - SumSold(productTransactions, "A")


\* ------------------------------------------- properties of the quantities
\* C29: Cart.add and Cart.set_quantity called with a quantity that is not a
\* number return an error and leave the cart as it is.
C29_UnparsableQuantityRejected ==
    \A s \in Sessions, b \in Barcodes :
        LET added == AddQuantity(cart[s], PlainKey(b), products[b], NotANumber, NoPrice)
            set == SetQuantityText(cart[s], PlainKey(b), NotANumber)
        IN  /\ added.status = "error" /\ added.cart = cart[s]
            /\ set.status = "error" /\ set.cart = cart[s]


\* C30: an add at an override price with more than two decimal places stores
\* on the line the price rounded half-up to two places, and the line total is
\* computed from that stored price.
C30_OverridePriceStoredHalfUp ==
    \A s \in Sessions :
        ( /\ last.session = s
          /\ last.op = "add" /\ last.status = "ok" /\ last.vp # NoPrice
          /\ last.key \in DOMAIN cart[s] )
        => LET line == cart[s][last.key]
           IN  /\ line.price = RoundHalfUp(PriceOf(last.vp), 10)
               /\ line.line_total = line.price * line.quantity + line.deposit_value


\* ------------------------------------------------- properties of the tax
\* C31: the percentage Cart.add resolves for a product is the 18% default
\* only when the product is VAT-applicable without a tax category; the
\* percentage of a tax category, 0% included, is returned as it is; and a
\* line added for a product that is not VAT-applicable carries no VAT.
C31_ResolvedPercentageIsKept ==
    \A b \in Barcodes :
        LET p == products[b]
            resolved == ResolveTaxPct(p)
        IN  /\ (p.is_vat_applicable /\ p.tax_category # NoCategory)
                  => resolved[1] = CategoryPct(p.tax_category)
            /\ (p.is_vat_applicable /\ p.tax_category = NoCategory)
                  => resolved[1] = 18
            /\ ~p.is_vat_applicable
                  => NewLine(p, 10 * p.sales_price, FALSE, 1).tax_value = 0


\* C32: the save of a StockAdjustment whose quantity exceeds the on-hand
\* quantity at that moment is refused, changes no stock and records nothing;
\* an accepted one takes exactly its quantity off the stock, which stays at
\* zero or above, and records one adjustment.
Saves(r) == adjust[r].pc = "valid" /\ adjust'[r].pc = "done"
C32_AdjustmentNeverGoesBelowZero ==
    [][ \A r \in AdjustRequests : Saves(r) =>
          LET b == adjust[r].barcode
              k == adjust[r].quantity
          IN  /\ k > products[b].qty => adjust'[r].result = "error"
              /\ IF adjust'[r].result = "ok"
                 THEN /\ products'[b].qty = products[b].qty - k
                      /\ products'[b].qty >= 0
                      /\ stockAdjustments' =
                            Append(stockAdjustments, [product |-> b, quantity |-> k])
                 ELSE UNCHANGED <<products, stockAdjustments>> ]_vars

\* Two adjustments of A were accepted by the form against the same stock; the
\* first was saved, the second was refused at its save.
C32_Witness ==
    /\ adjust[1].result = "ok"
    /\ adjust[2].result = "error"
    /\ adjust[2].product.qty >= adjust[2].quantity
    /\ Len(stockAdjustments) = 1
    /\ products["A"].qty >= 0


\* C33: with no returns applied, every line of every cart has quantity >= 1.
C33_EveryLineHasPositiveQuantity ==
    \A s \in Sessions : \A k \in DOMAIN cart[s] : cart[s][k].quantity >= 1


\* The lines of cart c whose product (the base product of a keyed amount) is
\* flagged not VAT-applicable.
NotVatApplicable(c) ==
    {k \in DOMAIN c : HasItem(k) /\ ~products[k.base].is_vat_applicable}

\* C34: a line of a product flagged not VAT-applicable is committed with
\* tax_amount 0 on its row, and a sale made of such lines only has tax_total
\* 0, whatever the product's tax category.
C34_NotVatApplicableCommitsNoVat ==
    [][ \A r \in Requests : CreatesSale(r)
          => LET c == req[r].cart
                 id == Len(transactions')
             IN  /\ \A row \in productTransactions' :
                       (row.transaction = id /\ row.barcode \in NotVatApplicable(c))
                          => row.tax_amount = 0
                 /\ NotVatApplicable(c) = DOMAIN c
                       => transactions'[id].tax_total = 0 ]_vars


\* C35: the row committed for a line keyed as a base barcode with an amount
\* suffix carries the base product's cost price, department and tax
\* percentage.
C35_SuffixedLineResolvesBaseProduct ==
    [][ \A r \in Requests : CreatesSale(r)
          => \A k \in DOMAIN req[r].cart : (k.manual /\ HasItem(k))
                => \E row \in productTransactions' :
                      /\ row.transaction = Len(transactions')
                      /\ row.barcode = k
                      /\ row.cost_price = products[k.base].cost_price
                      /\ row.department = products[k.base].department
                      /\ row.tax_percentage = CategoryTaxPct(products[k.base]) ]_vars


\* What a cart holds and what a sale's rows hold: barcode, quantity and price
\* of every line.
CartContents(c) == {<<k, c[k].quantity, c[k].price>> : k \in DOMAIN c}
SaleContents(id) == {<<row.barcode, row.qty, row.sales_price>> : row \in RowsOf(id)}

\* The step is endDebtTransaction of request r answering with the receipt of
\* an existing sale.
TreatedAsDuplicate(r) ==
    /\ req[r].pc = "idle"
    /\ req'[r].pc = "done"
    /\ req'[r].type = "debt"
    /\ req'[r].to = "receipt"

\* C36: endDebtTransaction answers with an existing sale, clearing the cart
\* and creating none, only if that sale is by the same user, on credit, of
\* the same total and of the same cart contents.
C36_DuplicateOnlyOfSameCart ==
    [][ \A r \in Requests : TreatedAsDuplicate(r)
          => LET id == req'[r].id  s == req'[r].s
             IN  /\ transactions[id].user = s
                 /\ transactions[id].payment_type = "DEBT"
                 /\ transactions[id].total_sale = req'[r].total
                 /\ SaleContents(id) = CartContents(cart[s]) ]_vars


\* C37: a step that stores no new sale header, the saving again of a stored
\* header whose rows exist in particular, creates no row, changes no stock
\* and creates no Debt and no payment.
C37_ResaveCreatesNothing ==
    [][ Len(transactions') = Len(transactions)
          => /\ productTransactions' = productTransactions
             /\ \A b \in Barcodes : products'[b].qty = products[b].qty
             /\ debts' = debts
             /\ debtPayments' = debtPayments ]_vars

\* A credit sale of B with an initial payment whose header no longer carries
\* the VAT of its row: the header was saved again after the percentage of
\* B's tax category was changed.
C37_Witness ==
    /\ Len(transactions) >= 1
    /\ transactions[1].payment_type = "DEBT"
    /\ DOMAIN transactions[1].products = {PlainKey("B")}
    /\ transactions[1].tax_total # SumRowTax(RowsOf(1))
    /\ Cardinality(RowsOf(1)) = 1
    /\ Cardinality(DebtsOf(debts, 1)) = 1
    /\ Len(debtPayments) = 1


\* No payment request is under way.
PaymentsCompleted == \A r \in PayRequests : pay[r].pc \in {"idle", "done"}

\* C38: when the payment requests against a debt have completed, in whatever
\* order their steps interleaved, the stored status is PAID exactly when
\* paid_amount >= total_amount > 0 and PARTIAL exactly when
\* 0 < paid_amount < total_amount.
C38_StatusAgreesWithAmounts ==
    PaymentsCompleted
    => \A pk \in 1..Len(debts) :
          LET d == debts[pk]
          IN  /\ d.status = "PAID" <=> (d.paid_amount >= d.total_amount /\ d.total_amount > 0)
              /\ d.status = "PARTIAL" <=> (0 < d.paid_amount /\ d.paid_amount < d.total_amount)


\* The step is the first save of a DEBT header with a paid_amount above 0.00.
SavesPaidDebtHeader ==
    /\ Len(transactions') = Len(transactions) + 1
    /\ transactions'[Len(transactions')].payment_type = "DEBT"
    /\ transactions'[Len(transactions')].paid_amount > 0

\* C39: the first save of a DEBT header with paid_amount p > 0 leaves the
\* sale with one Debt whose paid_amount is p and with exactly one payment, of
\* amount p.
C39_InitialPaymentCountedOnce ==
    [][ SavesPaidDebtHeader
          => LET id == Len(transactions')
                 p == transactions'[id].paid_amount
             IN  \E pk \in 1..Len(debts') :
                    /\ DebtsOf(debts', id) = {pk}
                    /\ debts'[pk].paid_amount = p
                    /\ {j \in 1..Len(debtPayments') : debtPayments'[j].debt = pk}
                          = {Len(debtPayments')}
                    /\ Len(debtPayments') = Len(debtPayments) + 1
                    /\ debtPayments'[Len(debtPayments')].amount = p ]_vars


\* The step puts a cart of s under a new key of Cart_Sessions, or takes one
\* out.
Suspends(s) == Len(session'[s].Cart_Sessions) > Len(session[s].Cart_Sessions)
Recalls(s) == Len(session'[s].Cart_Sessions) < Len(session[s].Cart_Sessions)

\* C40: a recall finds the active cart empty, makes a suspended cart the
\* active one and removes it, and nothing else, from the suspended ones; a
\* suspend leaves its cart under the new key only, the active cart empty, so
\* that a cart's lines are never held twice.
C40_SuspendedCartHeldOnce ==
    [][ \A s \in Sessions :
          LET held == session[s].Cart_Sessions
              kept == session'[s].Cart_Sessions
          IN  /\ Recalls(s)
                 => /\ cart[s] = EmptyCart
                    /\ \E i \in 1..Len(held) :
                          /\ cart'[s] = held[i]
                          /\ kept = [j \in 1..(Len(held) - 1) |->
                                        IF j < i THEN held[j] ELSE held[j + 1]]
              /\ Suspends(s)
                 => /\ kept = Append(held, cart[s])
                    /\ cart'[s] = EmptyCart ]_vars

====
